---- MODULE Spec2Model ----
(***************************************************************************)
(* Badge awarding engine, eligibility evaluator and webhook ingestion      *)
(* gateway of praise-backend, as state machines over the MongoDB           *)
(* collections they read and write.                                        *)
(*                                                                         *)
(* Every `await` on a collection is an interleaving point: a handler is    *)
(* cut into one action per collection access, and the code that runs       *)
(* between two accesses (local computation on the handler's own result     *)
(* object) belongs to the action of the access before it.                  *)
(***************************************************************************)
EXTENDS Integers, Sequences, FiniteSets, TLC

VARIABLES
    badges,         \* Badge collection, in insertion order
    userBadges,     \* UserBadge collection (the Award ledger), in insertion order
    userRepositories, \* UserRepository collection (memberships)
    contributions,  \* per user: index into StatsLevels of the user's statistics
    procs,          \* one record per in-flight awarding invocation
    webhookSecret,  \* process.env.WEBHOOK_SECRET ("none" when not configured)
    webhookEvents,  \* WebhookEvent collection, in insertion order
    reqs,           \* one record per in-flight POST /github/webhook request
    repositories,   \* Repository collection (committed rows), in insertion order
    importers,      \* one record per BadgeService.importRepositories call
    adders,         \* one record per UserRepository.addUserToRepository call
    seeds,          \* one record per Badge.createDefaultBadges call
    statsCall,             \* one statistics computation: upstream data, failures, result
    pullRequests,   \* PullRequest collection (the pull-request ledger)
    ingests,        \* one record per PullRequest.createOrUpdateFromWebhook call
    ev              \* the evaluator's current call: arguments and results

vars == <<badges, userBadges, userRepositories, contributions, procs,
          webhookSecret, webhookEvents, reqs, repositories, importers,
          adders, seeds, statsCall, pullRequests, ingests, ev>>

awardVars == <<badges, userBadges, userRepositories, contributions, procs>>
webhookVars == <<webhookSecret, webhookEvents, reqs>>
importVars == <<repositories, importers>>
unitVars == <<adders, seeds, statsCall>>
prVars == <<pullRequests, ingests>>

-----------------------------------------------------------------------------
(* Bounds *)

MaxFaults == 1      \* transient write failures injected per behaviour
MaxMetric == 4      \* largest metric / threshold the evaluator is tried on
MaxRetries == 1     \* re-runs of an import transaction's body by withTransaction
MaxCalls == 2       \* calls of Badge.createDefaultBadges per caller

Procs == {"p1", "p2"}
Reqs == {"q1", "q2"}
Users == {"u1", "u2"}
Repos == {"r1", "r2"}
RunRepos == {"r1"}  \* repositories the invocations are started on

-----------------------------------------------------------------------------
(* Badge catalog *)

CriteriaTypes == {"prs", "commits", "issues", "reviews", "stars", "forks"}

\* The fixed default set, in the order insertMany writes it.
defaultBadges ==
    << [name |-> "First Contributor",  criteriaType |-> "prs",     criteriaValue |-> 1],
       [name |-> "Active Contributor", criteriaType |-> "prs",     criteriaValue |-> 5],
       [name |-> "Super Contributor",  criteriaType |-> "prs",     criteriaValue |-> 20],
       [name |-> "Commit Champion",    criteriaType |-> "commits", criteriaValue |-> 50] >>

\* Badge documents created by createDefaultBadges for one repository.
createDefaultBadges(repositoryId) ==
    [i \in 1..Len(defaultBadges) |->
        [id |-> <<repositoryId, i>>,
         repository |-> repositoryId,
         criteriaType |-> defaultBadges[i].criteriaType,
         criteriaValue |-> defaultBadges[i].criteriaValue,
         active |-> TRUE]]

\* Badge.find({repository, active: true}) -- natural (insertion) order.
BadgeFindActive_anyRepo(coll, repositoryId) ==
    SelectSeq(coll, LAMBDA b : b.active)

BadgeFindActive(coll, repositoryId) ==
    SelectSeq(coll, LAMBDA b : b.repository = repositoryId /\ b.active)

\* .sort({criteriaValue: 1}) -- stable insertion sort.
RECURSIVE SortByCriteriaValue(_)
SortByCriteriaValue(s) ==
    IF Len(s) <= 1 THEN s
    ELSE LET rest == SortByCriteriaValue(Tail(s))
             h == Head(s)
             lo == SelectSeq(rest, LAMBDA b : b.criteriaValue < h.criteriaValue)
             hi == SelectSeq(rest, LAMBDA b : b.criteriaValue >= h.criteriaValue)
         IN lo \o <<h>> \o hi

-----------------------------------------------------------------------------
(* Eligibility evaluator *)

checkBadgeEligibility_strict(contributor, badge) ==
    CASE badge.criteriaType = "prs" -> contributor.mergedPRs > badge.criteriaValue
      [] badge.criteriaType = "commits" -> contributor.totalCommits > badge.criteriaValue
      [] OTHER -> FALSE

checkBadgeEligibility(contributor, badge) ==
    CASE badge.criteriaType = "prs" -> contributor.mergedPRs >= badge.criteriaValue
      [] badge.criteriaType = "commits" -> contributor.totalCommits >= badge.criteriaValue
      [] badge.criteriaType = "issues" -> FALSE
      [] badge.criteriaType = "reviews" -> FALSE
      [] badge.criteriaType = "stars" -> FALSE
      [] badge.criteriaType = "forks" -> FALSE
      [] OTHER -> FALSE

getActualValue_commitsOnly(contributor, badge) ==
    CASE badge.criteriaType = "prs" -> contributor.totalCommits
      [] badge.criteriaType = "commits" -> contributor.totalCommits
      [] OTHER -> contributor.totalCommits

getActualValue(contributor, badge) ==
    CASE badge.criteriaType = "prs" -> contributor.mergedPRs
      [] badge.criteriaType = "commits" -> contributor.totalCommits
      [] OTHER -> 0

-----------------------------------------------------------------------------
(* Award ledger (UserBadge) *)

\* UserBadge.findOne({user, badge}): does a matching row exist?
UserBadgeFindOne(coll, userId, badgeId) ==
    \E i \in 1..Len(coll) : coll[i].user = userId /\ coll[i].badge = badgeId

\* userBadgeSchema.index({user: 1, badge: 1}, {unique: true}): would inserting
\* a row for (userId, badgeId) raise the duplicate-key error 11000?
UserBadgeDuplicateKey_noIndex(coll, userId, badgeId) == FALSE

UserBadgeDuplicateKey(coll, userId, badgeId) ==
    \E i \in 1..Len(coll) : coll[i].user = userId /\ coll[i].badge = badgeId

\* The document `new this({...})` builds and save() writes.  awardedBy is not
\* passed by awardBadge, so the schema default applies.
NewUserBadge_zeroValue(userId, badgeId, repositoryId, actualValue, triggeringEvent) ==
    [user |-> userId, badge |-> badgeId, repository |-> repositoryId,
     actualValue |-> 0, awardedBy |-> "system",
     triggeringEvent |-> triggeringEvent, acknowledged |-> FALSE]

NewUserBadge(userId, badgeId, repositoryId, actualValue, triggeringEvent) ==
    [user |-> userId, badge |-> badgeId, repository |-> repositoryId,
     actualValue |-> actualValue, awardedBy |-> "system",
     triggeringEvent |-> triggeringEvent, acknowledged |-> FALSE]

\* The catch block of awardBadge: what happens to an error with this code.
AwardBadgeCatch_rethrow(code) == "throw"

AwardBadgeCatch(code) == IF code = 11000 THEN "return" ELSE "throw"

\* `if (awardResult.success)`: does the caller report the award as new?
CountsAward_always(success) == TRUE

CountsAward(success) == success

\* UserBadge.find({user, repository}) mapped to the set of badge ids.
ExistingBadgeIds(coll, userId, repositoryId) ==
    {coll[i].badge : i \in {j \in 1..Len(coll) :
        coll[j].user = userId /\ coll[j].repository = repositoryId}}

RowsFor(coll, userId, badgeId) ==
    {i \in 1..Len(coll) : coll[i].user = userId /\ coll[i].badge = badgeId}

RowSet(coll) == {coll[i] : i \in 1..Len(coll)}

-----------------------------------------------------------------------------
(* Contributor statistics as seen by the engine *)

\* The statistics records a user's contribution history can amount to
\* (mergedPRs and totalCommits only: the engine reads no other field).
StatsLevels ==
    << [mergedPRs |-> 1, totalCommits |-> 10],
       [mergedPRs |-> 5, totalCommits |-> 50] >>

StatsValues == {StatsLevels[i] : i \in 1..Len(StatsLevels)}

Contributor(userId, st) ==
    [userId |-> userId, mergedPRs |-> st.mergedPRs, totalCommits |-> st.totalCommits]

CurrentStats(userId) == Contributor(userId, StatsLevels[contributions[userId]])

\* getContributorStats(repoId, userId): one record, or [] when the user has no
\* credentials or the upstream fetch failed.
SingleUserStats(userId) == {<<>>, <<CurrentStats(userId)>>}

\* getContributorStats(repoId, null): one record per user that has
\* pull-request rows in the repository (any subset of the users; two
\* contributors are listed u1 first).
AllContributorStats ==
    {<<>>}
    \cup {<<CurrentStats(u)>> : u \in Users}
    \cup {<<CurrentStats(x[1]), CurrentStats(x[2])>> :
            x \in {<<"u1", "u2">>}}

-----------------------------------------------------------------------------
(* Awarding invocations *)

Idle ==
    [pc |-> "idle", kind |-> "none", repositoryId |-> "none", userId |-> "none",
     forceRecheck |-> FALSE, triggeringEvent |-> "none",
     contributors |-> <<>>, ci |-> 0, activeBadges |-> <<>>, bi |-> 0,
     existingBadgeIds |-> {},
     success |-> TRUE, status |-> 0, awardsGiven |-> 0,
     newAwards |-> <<>>, errors |-> <<>>,
     \* history of the invocation, read only by the properties
     preexisting |-> {}, inserted |-> {}, lost |-> {}, faults |-> 0]

Finish(s) == [s EXCEPT !.pc = "done", !.ci = 0, !.bi = 0]

\* Loop positions (contributor index, badge index) in iteration order.
Before(a, b) == a[1] < b[1] \/ (a[1] = b[1] /\ a[2] < b[2])

\* The iterations after position `from` whose body can do anything: for a
\* badge the contributor is not eligible for, the body ends at the
\* eligibility test whatever its findOne returned, so such an iteration is
\* not a step of its own.
Pending_unchecked(s, from) ==
    {pos \in (1..Len(s.contributors)) \X (1..Len(s.activeBadges)) : Before(from, pos)}

Pending(s, from) ==
    {pos \in (1..Len(s.contributors)) \X (1..Len(s.activeBadges)) :
        /\ Before(from, pos)
        /\ checkBadgeEligibility(s.contributors[pos[1]], s.activeBadges[pos[2]])}

GoTo(s, from) ==
    IF Pending(s, from) = {} THEN Finish(s)
    ELSE LET nxt == CHOOSE pos \in Pending(s, from) :
                        \A o \in Pending(s, from) : o = pos \/ Before(pos, o)
         IN [s EXCEPT !.pc = "check", !.ci = nxt[1], !.bi = nxt[2]]

\* Enter the `for contributor / for badge` loops.
EnterLoop(s) == GoTo(s, <<0, 0>>)

\* `continue` / end of the loop body.
Advance(s) == GoTo(s, <<s.ci, s.bi>>)

\* Each slot carries one invocation: two slots give both the concurrent and
\* the one-after-the-other runs of two invocations.
CanBegin(p) == procs[p].pc = "idle"

Started(kind, repositoryId, userId, force, trig) ==
    [Idle EXCEPT !.kind = kind, !.repositoryId = repositoryId, !.userId = userId,
                 !.forceRecheck = force, !.triggeringEvent = trig,
                 !.preexisting = {r \in RowSet(userBadges) : r.repository = repositoryId}]

\* BadgeService.awardBadgeForEvent, up to the statistics fetch.
BeginEvent(p, repositoryId, userId, userStats) ==
    /\ CanBegin(p)
    /\ LET s == Started("event", repositoryId, userId, FALSE, "webhook_event")
       IN procs' = [procs EXCEPT ![p] =
            IF Len(userStats) = 0
            THEN Finish([s EXCEPT !.success = FALSE])
            ELSE [s EXCEPT !.pc = "loadBadges", !.contributors = userStats]]
    /\ UNCHANGED <<badges, userBadges, userRepositories, contributions, webhookVars, importVars, unitVars, prVars, ev>>

\* checkAndAwardBadges, up to the statistics fetch.
BeginCheck(p, repositoryId, userId, userStats) ==
    /\ CanBegin(p)
    /\ LET s == Started("check", repositoryId, userId, FALSE, "manual_check")
           member == \E i \in 1..Len(userRepositories) :
                        /\ userRepositories[i].user = userId
                        /\ userRepositories[i].repository = repositoryId
                        /\ userRepositories[i].active
       IN procs' = [procs EXCEPT ![p] =
            IF ~member THEN Finish([s EXCEPT !.status = 404])
            ELSE IF Len(userStats) = 0 THEN Finish([s EXCEPT !.status = 200])
            ELSE [s EXCEPT !.pc = "loadBadges", !.contributors = userStats]]
    /\ UNCHANGED <<badges, userBadges, userRepositories, contributions, webhookVars, importVars, unitVars, prVars, ev>>

\* BadgeService.awardBadgesForRepo, up to Repository.findById.
BeginBatch(p, repositoryId, force) ==
    /\ CanBegin(p)
    /\ procs' = [procs EXCEPT ![p] =
         [Started("batch", repositoryId, "none", force, "batch_award")
            EXCEPT !.pc = "loadBadges"]]
    /\ UNCHANGED <<badges, userBadges, userRepositories, contributions, webhookVars, importVars, unitVars, prVars, ev>>

\* Badge.find({repository, active: true}); for the batch path also the
\* following getContributorStats(repoId, null).
LoadBadges(p) ==
    /\ procs[p].pc = "loadBadges"
    /\ LET s == procs[p]
           found == BadgeFindActive(badges, s.repositoryId)
       IN \/ /\ s.kind = "event"
             /\ procs' = [procs EXCEPT ![p] = EnterLoop([s EXCEPT !.activeBadges = found])]
          \/ /\ s.kind = "check"
             /\ procs' = [procs EXCEPT ![p] =
                   [s EXCEPT !.activeBadges = SortByCriteriaValue(found),
                             !.pc = "loadExisting"]]
          \/ /\ s.kind = "batch"
             /\ \E cs \in AllContributorStats :
                  procs' = [procs EXCEPT ![p] =
                     IF Len(found) = 0 THEN Finish(s)
                     ELSE EnterLoop([s EXCEPT !.activeBadges = found,
                                              !.contributors = cs])]
    /\ UNCHANGED <<badges, userBadges, userRepositories, contributions, webhookVars, importVars, unitVars, prVars, ev>>

\* checkAndAwardBadges: UserBadge.find({user, repository}) into existingBadgeIds.
LoadExisting(p) ==
    /\ procs[p].pc = "loadExisting"
    /\ LET s == procs[p]
       IN procs' = [procs EXCEPT ![p] =
            EnterLoop([s EXCEPT !.existingBadgeIds =
                ExistingBadgeIds(userBadges, s.userId, s.repositoryId)])]
    /\ UNCHANGED <<badges, userBadges, userRepositories, contributions, webhookVars, importVars, unitVars, prVars, ev>>

CurContributor(s) == s.contributors[s.ci]
CurBadge(s) == s.activeBadges[s.bi]

\* Head of the loop body: the caller's own "already awarded" test (the
\* eligibility test that follows it is the one Pending applied).
AlreadyAwarded(s) ==
    CASE s.kind = "event" -> UserBadgeFindOne(userBadges, s.userId, CurBadge(s).id)
      [] s.kind = "check" -> CurBadge(s).id \in s.existingBadgeIds
      [] s.kind = "batch" ->
            /\ ~s.forceRecheck
            /\ UserBadgeFindOne(userBadges, CurContributor(s).userId, CurBadge(s).id)

CheckBadge(p) ==
    /\ procs[p].pc = "check"
    /\ LET s == procs[p]
       IN procs' = [procs EXCEPT ![p] =
            IF AlreadyAwarded(s) THEN Advance(s)
            ELSE [s EXCEPT !.pc = "awardFind"]]
    /\ UNCHANGED <<badges, userBadges, userRepositories, contributions, webhookVars, importVars, unitVars, prVars, ev>>

\* UserBadge.awardBadge: the findOne at its top.
AwardFind(p) ==
    /\ procs[p].pc = "awardFind"
    /\ LET s == procs[p]
           u == CurContributor(s).userId
           b == CurBadge(s).id
       IN procs' = [procs EXCEPT ![p] =
            IF UserBadgeFindOne(userBadges, u, b)
            THEN \* {success: false, award: existingAward}
                 IF CountsAward(FALSE)
                 THEN Advance([s EXCEPT !.awardsGiven = @ + 1,
                                        !.newAwards = Append(@, <<u, b>>)])
                 ELSE Advance(s)
            ELSE [s EXCEPT !.pc = "save"]]
    /\ UNCHANGED <<badges, userBadges, userRepositories, contributions, webhookVars, importVars, unitVars, prVars, ev>>

\* What the caller does with an error thrown out of awardBadge.
Thrown(s, u, b) ==
    CASE s.kind = "batch" -> Advance([s EXCEPT !.errors = Append(@, <<u, b>>)])
      [] s.kind = "check" -> Advance(s)
      [] s.kind = "event" ->
            Finish([s EXCEPT !.success = FALSE, !.awardsGiven = 0, !.newAwards = <<>>])

\* UserBadge.awardBadge: userBadge.save() and everything after it.
Save(p) ==
    /\ procs[p].pc = "save"
    /\ LET s == procs[p]
           c == CurContributor(s)
           u == c.userId
           b == CurBadge(s).id
           doc == NewUserBadge(u, b, s.repositoryId,
                               getActualValue(c, CurBadge(s)), s.triggeringEvent)
       IN IF UserBadgeDuplicateKey(userBadges, u, b)
          THEN /\ userBadges' = userBadges
               /\ LET t == [s EXCEPT !.lost = @ \cup {<<u, b>>}]
                  IN procs' = [procs EXCEPT ![p] =
                       IF AwardBadgeCatch(11000) = "return"
                       THEN \* {success: false}
                            IF CountsAward(FALSE)
                            THEN Advance([t EXCEPT !.awardsGiven = @ + 1,
                                                   !.newAwards = Append(@, <<u, b>>)])
                            ELSE Advance(t)
                       ELSE Thrown(t, u, b)]
          ELSE /\ userBadges' = Append(userBadges, doc)
               /\ LET t == [s EXCEPT !.inserted = @ \cup {<<u, b>>}]
                  IN procs' = [procs EXCEPT ![p] =
                       IF CountsAward(TRUE)
                       THEN Advance([t EXCEPT !.awardsGiven = @ + 1,
                                              !.newAwards = Append(@, <<u, b>>)])
                       ELSE Advance(t)]
    /\ UNCHANGED <<badges, userRepositories, contributions, webhookVars, importVars, unitVars, prVars, ev>>

RECURSIVE SumFaults(_)
SumFaults(ps) ==
    IF ps = {} THEN 0
    ELSE LET q == CHOOSE x \in ps : TRUE IN procs[q].faults + SumFaults(ps \ {q})

FaultsSoFar == SumFaults(Procs)

\* userBadge.save() fails with a storage error other than a duplicate key.
SaveFault(p) ==
    /\ procs[p].pc = "save"
    /\ FaultsSoFar < MaxFaults
    /\ LET s == procs[p]
           u == CurContributor(s).userId
           b == CurBadge(s).id
           t == [s EXCEPT !.faults = @ + 1]
       IN procs' = [procs EXCEPT ![p] =
            IF AwardBadgeCatch(0) = "return" THEN Advance(t) ELSE Thrown(t, u, b)]
    /\ UNCHANGED <<badges, userBadges, userRepositories, contributions, webhookVars, importVars, unitVars, prVars, ev>>

NextAward ==
    \E p \in Procs :
        \/ \E r \in RunRepos, u \in Users : \E st \in SingleUserStats(u) : BeginEvent(p, r, u, st)
        \/ \E r \in RunRepos, u \in Users : \E st \in SingleUserStats(u) : BeginCheck(p, r, u, st)
        \/ \E r \in RunRepos, f \in BOOLEAN : BeginBatch(p, r, f)
        \/ LoadBadges(p)
        \/ LoadExisting(p)
        \/ CheckBadge(p)
        \/ AwardFind(p)
        \/ Save(p)
        \/ SaveFault(p)

-----------------------------------------------------------------------------
(* The Award ledger under awarding and acknowledgement *)

\* userBadgeSchema.methods.acknowledge: the row it saves.
acknowledge_resetValue(row) == [row EXCEPT !.acknowledged = TRUE, !.actualValue = 0]

acknowledge(row) == [row EXCEPT !.acknowledged = TRUE]

\* A consumer acknowledges the i-th Award.
Acknowledge(i) ==
    /\ userBadges' = [userBadges EXCEPT ![i] = acknowledge(@)]
    /\ UNCHANGED <<badges, userRepositories, contributions, procs,
                   webhookVars, importVars, unitVars, prVars, ev>>

\* One awarding invocation of any kind, and acknowledgements of what the
\* ledger holds.
NextLedger ==
    \/ \E r \in RunRepos, u \in Users : \E st \in SingleUserStats(u) : BeginEvent("p1", r, u, st)
    \/ \E r \in RunRepos, u \in Users : \E st \in SingleUserStats(u) : BeginCheck("p1", r, u, st)
    \/ \E r \in RunRepos, f \in BOOLEAN : BeginBatch("p1", r, f)
    \/ LoadBadges("p1")
    \/ LoadExisting("p1")
    \/ CheckBadge("p1")
    \/ AwardFind("p1")
    \/ Save("p1")
    \/ SaveFault("p1")
    \/ \E i \in 1..Len(userBadges) : Acknowledge(i)

-----------------------------------------------------------------------------
(* Webhook ingestion gateway *)

\* Request bodies: "full" is a JSON event carrying every field the handler of
\* its event type reads, "sparse" is the JSON object {} and "junk" is not JSON.
Bodies == {"full", "sparse", "junk"}
Keys == {"k1", "k2"}            \* "k1" is the deployment's secret when one is set
DeliveryIds == {"d1", "d2"}
EventHeaders == {"pull_request", "push", "ping", "none"}  \* "none": header absent

KnownEventTypes ==
    {"push", "pull_request", "issues", "commit_comment", "create",
     "delete", "fork", "release", "star", "watch"}

\* JSON.parse(data) succeeds.
IsJson(body) == body # "junk"

\* crypto.createHmac("sha256", key).update(payload).digest("hex"), as a
\* sequence of symbols: an ideal keyed hash, different for different
\* (key, payload) pairs, of one fixed length.
HmacSha256Hex(key, payload) == <<key, payload>>

ExpectedSignature(key, payload) == <<"sha256=">> \o HmacSha256Hex(key, payload)

\* crypto.timingSafeEqual(a, b): throws when the byte lengths differ.
timingSafeEqual_lengthOnly(a, b) ==
    IF Len(a) # Len(b) THEN "throw" ELSE "true"

timingSafeEqual(a, b) ==
    IF Len(a) # Len(b) THEN "throw"
    ELSE IF a = b THEN "true" ELSE "false"

verifyGitHubSignature(secret, payload, signature) ==
    IF secret = "none" THEN "false"
    ELSE timingSafeEqual(signature, ExpectedSignature(secret, payload))

\* Values of the x-hub-signature-256 header a sender can put on a body:
\* absent, empty, signed with either key over this or another body, and the
\* right signature cut short or extended.
NoHeader == [present |-> FALSE, value |-> <<>>]
Header(v) == [present |-> TRUE, value |-> v]

SignatureHeaders(body) ==
    {NoHeader}
    \cup {Header(v) : v \in
            {<<>>}
            \cup {ExpectedSignature(k, body) : k \in Keys}
            \cup {ExpectedSignature("k1", b) : b \in Bodies \ {body}}
            \cup {SubSeq(ExpectedSignature("k1", body), 1, 2),
                  ExpectedSignature("k1", body) \o <<"0">>}}

\* `!signature`: the header is absent or the empty string.
Falsy(signature) == ~signature.present \/ signature.value = <<>>

\* webhookEventSchema: deliveryId is unique.
WebhookEventDuplicateKey_noIndex(coll, deliveryId) == FALSE

WebhookEventDuplicateKey(coll, deliveryId) ==
    \E i \in 1..Len(coll) : coll[i].deliveryId = deliveryId

\* webhookEventSchema: eventType and deliveryId are required.
WebhookEventValid(eventType, deliveryId) == eventType # "none" /\ deliveryId # "none"

\* The switch in handleWebhook.
HandlerFor_pushFallback(event) == IF event \in KnownEventTypes THEN event ELSE "push"

HandlerFor(event) == IF event \in KnownEventTypes THEN event ELSE "generic"

\* The per-type handlers dereference payload.repository and their own
\* fields without guards; handleGenericEvent uses optional chaining.
HandlerThrows(handler, body) == handler # "generic" /\ body = "sparse"

ReqIdle ==
    [pc |-> "idle", signature |-> NoHeader, event |-> "none", deliveryId |-> "none",
     rawBody |-> "none", status |-> 0,
     \* history of the request, read only by the properties
     stored |-> "no", handler |-> "none", engineCalls |-> 0]

Respond(r, code) == [r EXCEPT !.pc = "done", !.status = code]

\* captureRawBody, then handleWebhook up to User.findOne.
Receive(q, signature, event, deliveryId, body) ==
    /\ reqs[q].pc = "idle"
    /\ LET r == [ReqIdle EXCEPT !.signature = signature, !.event = event,
                                !.deliveryId = deliveryId, !.rawBody = body]
           verdict == IF Falsy(signature) THEN "false"
                      ELSE verifyGitHubSignature(webhookSecret, body, signature.value)
       IN reqs' = [reqs EXCEPT ![q] =
            IF ~IsJson(body) THEN Respond(r, 400)
            ELSE IF verdict = "false" THEN Respond(r, 401)
            ELSE IF verdict = "throw" THEN Respond(r, 500)
            ELSE [r EXCEPT !.pc = "store"]]
    /\ UNCHANGED <<awardVars, webhookSecret, webhookEvents, importVars, unitVars, prVars, ev>>

\* WebhookEvent.create inside its own try/catch.
Store(q) ==
    /\ reqs[q].pc = "store"
    /\ LET r == reqs[q]
           outcome == IF ~WebhookEventValid(r.event, r.deliveryId) THEN "invalid"
                      ELSE IF WebhookEventDuplicateKey(webhookEvents, r.deliveryId) THEN "dup"
                      ELSE "ok"
       IN /\ webhookEvents' =
                IF outcome = "ok"
                THEN Append(webhookEvents, [eventType |-> r.event, deliveryId |-> r.deliveryId])
                ELSE webhookEvents
          /\ reqs' = [reqs EXCEPT ![q] = [r EXCEPT !.pc = "dispatch", !.stored = outcome]]
    /\ UNCHANGED <<awardVars, webhookSecret, importVars, unitVars, prVars, ev>>

\* WebhookEvent.create rejects with a storage error: the catch around it
\* logs the error and the request goes on to the switch.
StoreFault(q) ==
    /\ reqs[q].pc = "store"
    /\ reqs' = [reqs EXCEPT ![q] = [reqs[q] EXCEPT !.pc = "dispatch", !.stored = "failed"]]
    /\ UNCHANGED <<awardVars, webhookSecret, webhookEvents, importVars, unitVars, prVars, ev>>

\* Calls of BadgeService.awardBadgeForEvent a handler makes on a payload:
\* no handler of the controller makes one.
EngineCallsOf(handler, body) == 0

\* The payload names a repository and a sender that User.findOne resolves.
ResolvesLocally(body) == body = "full"

\* The switch on the event type, the handler it calls and the response.
Dispatch(q) ==
    /\ reqs[q].pc = "dispatch"
    /\ LET r == reqs[q]
           h == HandlerFor(r.event)
           t == [r EXCEPT !.handler = h,
                          !.engineCalls = @ + EngineCallsOf(h, r.rawBody)]
       IN reqs' = [reqs EXCEPT ![q] =
            IF HandlerThrows(h, r.rawBody) THEN Respond(t, 500) ELSE Respond(t, 200)]
    /\ UNCHANGED <<awardVars, webhookSecret, webhookEvents, importVars, unitVars, prVars, ev>>

NextWebhook ==
    \E q \in Reqs :
        \/ \E b \in Bodies, e \in EventHeaders, d \in DeliveryIds \cup {"none"} :
              \E sig \in SignatureHeaders(b) : Receive(q, sig, e, d, b)
        \/ Store(q)
        \/ StoreFault(q)
        \/ Dispatch(q)

-----------------------------------------------------------------------------
(* Repository import *)

GithubIds == {"g1", "g2"}          \* upstream repository ids
Names == {"n1", "n2"}              \* upstream data of a repository, before and after a change
Roles == {"owner", "contributor"}

\* response.data.owner.login of an upstream repository: g1 belongs to the
\* local user u1, g2 to an account that never signed up.
UpstreamOwner(githubId) == IF githubId = "g1" THEN "u1" ELSE "octocat"

\* The controller's role determination: owner.login === user.githubUsername.
RoleOf(userId, githubId) ==
    IF UpstreamOwner(githubId) = userId THEN "owner" ELSE "contributor"

\* The snapshot the controller passes on for one fetched repository.
GithubRepo(userId, githubId, name) ==
    [id |-> githubId, name |-> name, ownerLogin |-> UpstreamOwner(githubId),
     userRole |-> RoleOf(userId, githubId)]

\* Lists of repository ids a request can select.
IdLists == {<<"g1">>, <<"g2">>, <<"g1", "g2">>}

\* Repository.findOne({githubId}): the first matching row, <<>> when none.
RepositoryFindOne_none(coll, githubId) == <<>>

RepositoryFindOne(coll, githubId) ==
    LET hits == SelectSeq(coll, LAMBDA r : r.githubId = githubId)
    IN IF Len(hits) = 0 THEN <<>> ELSE <<hits[1]>>

\* repositorySchema: githubId is unique.
RepositoryDuplicateKey(coll, githubId) ==
    \E i \in 1..Len(coll) : coll[i].githubId = githubId

\* What `new Date()` / Date.now yields, told apart by the operation reading
\* the clock.
Stamps == {"import", "sync"}

\* repository.syncData(githubData): the upstream fields overwrite the row's
\* and lastSyncAt is set to now.
syncData_dropBadges(repository, githubData, now) ==
    [repository EXCEPT !.name = githubData.name, !.lastSyncAt = now, !.badges = <<>>]

syncData(repository, githubData, now) ==
    [repository EXCEPT !.name = githubData.name, !.lastSyncAt = now]

\* A save of a row: it replaces the row of the same _id or is appended.
Put(coll, row) ==
    IF \E i \in 1..Len(coll) : coll[i].id = row.id
    THEN [i \in 1..Len(coll) |-> IF coll[i].id = row.id THEN row ELSE coll[i]]
    ELSE Append(coll, row)

\* The collection after a sequence of saves.
RECURSIVE Overlay(_, _)
Overlay(coll, writes) ==
    IF writes = <<>> THEN coll ELSE Overlay(Put(coll, Head(writes)), Tail(writes))

\* Badge.find({repository, isDefault: true}).
BadgeFindDefault(coll, repositoryId) ==
    SelectSeq(coll, LAMBDA b : b.repository = repositoryId)

\* badges.map((badge) => badge._id)
BadgeIdsOf_dropLast(created) == [i \in 1..(Len(created) - 1) |-> created[i].id]

BadgeIdsOf(created) == [i \in 1..Len(created) |-> created[i].id]

\* The guard in front of Badge.createDefaultBadges in importRepositories.
SeedsBadges(existingBadges, userRole) == Len(existingBadges) = 0

\* UserRepository.findOne({user, repository}): indices of the matching rows.
UserRepositoryFind(coll, userId, repositoryId) ==
    {i \in 1..Len(coll) : coll[i].user = userId /\ coll[i].repository = repositoryId}

\* UserRepository.create({user, repository, role, permissions}) and the
\* pre-save hook.
NewUserRepository(userId, repositoryId, role) ==
    [user |-> userId, repository |-> repositoryId, role |-> role, active |-> TRUE,
     canManageBadges |-> (role = "owner"), canInviteContributors |-> (role = "owner")]

\* The `if (existing)` branch of addUserToRepository, up to existing.save():
\* role, active and, for an owner, the permissions are assigned, and the
\* pre-save hook derives the permissions again when the role was modified.
UpdatedMembership_noHook(existing, role) ==
    [existing EXCEPT !.role = role, !.active = TRUE,
                     !.canManageBadges = IF role = "owner" THEN TRUE ELSE @,
                     !.canInviteContributors = IF role = "owner" THEN TRUE ELSE @]

UpdatedMembership(existing, role) ==
    LET perm(old) == IF role = "owner" THEN TRUE
                     ELSE IF existing.role # role THEN FALSE
                     ELSE old
    IN [existing EXCEPT !.role = role, !.active = TRUE,
                        !.canManageBadges = perm(@),
                        !.canInviteContributors = perm(@)]

\* userRepositorySchema.index({user, repository}, {unique: true}).
UserRepositoryDuplicateKey_noIndex(coll, userId, repositoryId) == FALSE

UserRepositoryDuplicateKey(coll, userId, repositoryId) ==
    UserRepositoryFind(coll, userId, repositoryId) # {}

\* UserRepository.addUserToRepository: the collection after the call.  An
\* existing row is updated in place, with the permissions the role change
\* gives it in the pre-save hook; otherwise a row is created.
addUserToRepository(coll, userId, repositoryId, role) ==
    LET found == UserRepositoryFind(coll, userId, repositoryId)
    IN IF found # {}
       THEN LET i == CHOOSE j \in found : \A k \in found : j <= k
            IN [coll EXCEPT ![i] = UpdatedMembership(coll[i], role)]
       ELSE Append(coll, NewUserRepository(userId, repositoryId, role))

ImportIdle ==
    [pc |-> "idle", userId |-> "none", githubRepos |-> <<>>, gi |-> 0,
     attempt |-> 0,
     txn |-> <<>>,              \* Repository rows saved in the open transaction
     repository |-> <<>>,       \* _id of the repository of the current snapshot
     userRole |-> "none",
     \* the results object
     success |-> TRUE, imported |-> <<>>, updated |-> <<>>, errors |-> <<>>,
     badgesCreated |-> 0,
     \* history of the call, read only by the properties
     faults |-> 0,              \* errors thrown inside the loop body
     txFault |-> FALSE,         \* the transaction itself failed
     pre |-> <<>>,              \* the Repository collection when the call began
     preMembers |-> <<>>,       \* the UserRepository collection when the call began
     after |-> {}]              \* the calls that had returned when this one began

\* What a read inside the transaction sees: the committed rows under the
\* transaction's own saves.
TxnView(p) == Overlay(repositories, importers[p].txn)

\* `new Repository(...)`: a fresh _id for every document constructed.
NewRepositoryId(p) ==
    <<p, importers[p].attempt, importers[p].githubRepos[importers[p].gi].id>>

\* Step to the next snapshot of the list, or to the commit after the last.
NextSnapshot(c) ==
    IF c.gi < Len(c.githubRepos)
    THEN [c EXCEPT !.pc = "repo", !.gi = @ + 1]
    ELSE [c EXCEPT !.pc = "commit"]

\* The catch of the loop body: the error is recorded against the snapshot
\* and the loop goes on.
ImportCatch_rethrow(c, githubRepo) ==
    [c EXCEPT !.pc = "done", !.txn = <<>>, !.success = FALSE]

ImportCatch(c, githubRepo) ==
    NextSnapshot([c EXCEPT !.errors = Append(@, githubRepo.id)])

\* importRepositories up to the start of the transaction.  Calls are taken
\* one after another.
ImportBegin(p, userId, ids, name) ==
    /\ importers[p].pc = "idle"
    /\ \A q \in Procs \ {p} : importers[q].pc \in {"idle", "done"}
    /\ importers' = [importers EXCEPT ![p] =
         [ImportIdle EXCEPT
            !.pc = "repo", !.userId = userId, !.gi = 1,
            !.githubRepos = [i \in 1..Len(ids) |-> GithubRepo(userId, ids[i], name)],
            !.pre = repositories, !.preMembers = userRepositories,
            !.after = {q \in Procs \ {p} : importers[q].pc = "done"}]]
    /\ UNCHANGED <<awardVars, webhookVars, repositories, unitVars, prVars, ev>>

\* One snapshot of the loop, from Repository.findOne to results.updated.push
\* or results.imported.push.  Reads and saves of Repository rows go through
\* the session; Badge.createDefaultBadges is called without it, so its
\* insertMany takes effect at once.
ImportRepository(p) ==
    /\ importers[p].pc = "repo"
    /\ LET c == importers[p]
           githubRepo == c.githubRepos[c.gi]
           userRole == githubRepo.userRole
           found == RepositoryFindOne(TxnView(p), githubRepo.id)
       IN IF found # <<>>
          THEN LET repository == syncData(found[1], githubRepo, "import")
               IN /\ importers' = [importers EXCEPT ![p] =
                        [c EXCEPT !.pc = "member",
                                  !.txn = Append(@, repository),
                                  !.repository = repository.id,
                                  !.userRole = userRole,
                                  !.updated = Append(@, [id |-> repository.id,
                                                         githubId |-> githubRepo.id,
                                                         role |-> userRole])]]
                  /\ UNCHANGED badges
          ELSE IF RepositoryDuplicateKey(TxnView(p), githubRepo.id)
          THEN \* repository.save rejects; the catch of the loop body records it
               /\ importers' = [importers EXCEPT ![p] = ImportCatch(c, githubRepo)]
               /\ UNCHANGED badges
          ELSE LET id == NewRepositoryId(p)
                   repoOwnerId == IF githubRepo.ownerLogin \in Users
                                  THEN githubRepo.ownerLogin ELSE c.userId
                   existingBadges == BadgeFindDefault(badges, id)
                   created == IF SeedsBadges(existingBadges, userRole)
                              THEN createDefaultBadges(id) ELSE <<>>
                   repository == [id |-> id, githubId |-> githubRepo.id,
                                  owner |-> repoOwnerId, name |-> githubRepo.name,
                                  lastSyncAt |-> "import",
                                  badges |-> IF Len(created) > 0
                                             THEN BadgeIdsOf(created) ELSE <<>>]
               IN /\ badges' = badges \o created
                  /\ importers' = [importers EXCEPT ![p] =
                        [c EXCEPT !.pc = "member",
                                  !.txn = Append(@, repository),
                                  !.repository = id,
                                  !.userRole = userRole,
                                  !.badgesCreated = @ + Len(created),
                                  !.imported = Append(@, [id |-> id,
                                                          githubId |-> githubRepo.id,
                                                          role |-> userRole])]]
    /\ UNCHANGED <<userBadges, userRepositories, contributions, procs,
                   webhookVars, repositories, unitVars, prVars, ev>>

\* A step of the loop body throws an error that is not the transaction's:
\* the snapshot fails schema validation when its Repository document is
\* saved, before anything is written for it.
SnapshotFault(p) ==
    /\ importers[p].pc = "repo"
    /\ importers[p].faults < MaxFaults
    /\ LET c == importers[p]
       IN importers' = [importers EXCEPT ![p] =
            ImportCatch([c EXCEPT !.faults = @ + 1], c.githubRepos[c.gi])]
    /\ UNCHANGED <<awardVars, webhookVars, repositories, unitVars, prVars, ev>>

\* UserRepository.addUserToRepository rejects with an error other than a
\* duplicate key and rethrows it into the loop body.
MembershipFault(p) ==
    /\ importers[p].pc = "member"
    /\ importers[p].faults < MaxFaults
    /\ LET c == importers[p]
       IN importers' = [importers EXCEPT ![p] =
            ImportCatch([c EXCEPT !.faults = @ + 1], c.githubRepos[c.gi])]
    /\ UNCHANGED <<awardVars, webhookVars, repositories, unitVars, prVars, ev>>

\* UserRepository.addUserToRepository(userId, repository._id, userRole),
\* called without the session: the membership is written at once.
AddMembership(p) ==
    /\ importers[p].pc = "member"
    /\ LET c == importers[p]
       IN /\ userRepositories' =
                addUserToRepository(userRepositories, c.userId, c.repository, c.userRole)
          /\ importers' = [importers EXCEPT ![p] = NextSnapshot(c)]
    /\ UNCHANGED <<badges, userBadges, contributions, procs,
                   webhookVars, repositories, unitVars, prVars, ev>>

\* withTransaction commits: the saves of the transaction become visible.
CommitTransaction(p) ==
    /\ importers[p].pc = "commit"
    /\ repositories' = Overlay(repositories, importers[p].txn)
    /\ importers' = [importers EXCEPT ![p] = [@ EXCEPT !.pc = "done", !.txn = <<>>]]
    /\ UNCHANGED <<awardVars, webhookVars, unitVars, prVars, ev>>

\* The commit meets a transient transaction error: withTransaction drops
\* the transaction's saves and runs the callback again, over the same
\* results object.
RetryTransaction(p) ==
    /\ importers[p].pc = "commit"
    /\ importers[p].attempt < MaxRetries
    /\ importers' = [importers EXCEPT ![p] =
         [@ EXCEPT !.pc = "repo", !.gi = 1, !.attempt = @ + 1, !.txn = <<>>]]
    /\ UNCHANGED <<awardVars, webhookVars, repositories, unitVars, prVars, ev>>

\* The commit fails for good: withTransaction throws, the transaction's
\* saves are dropped and the outer catch sets success to false.
AbortTransaction(p) ==
    /\ importers[p].pc = "commit"
    /\ importers' = [importers EXCEPT ![p] =
         [@ EXCEPT !.pc = "done", !.txn = <<>>, !.success = FALSE, !.txFault = TRUE]]
    /\ UNCHANGED <<awardVars, webhookVars, repositories, unitVars, prVars, ev>>

\* syncRepository: the caller's own repository is looked up, its upstream
\* data fetched and applied with syncData.  Taken while no import is in
\* flight.
SyncRepository(userId, i, name) ==
    /\ \A p \in Procs : importers[p].pc \in {"idle", "done"}
    /\ i \in 1..Len(repositories)
    /\ repositories[i].owner = userId
    /\ repositories' = Put(repositories,
          syncData(repositories[i], GithubRepo(userId, repositories[i].githubId, name),
                   "sync"))
    /\ UNCHANGED <<awardVars, webhookVars, importers, unitVars, prVars, ev>>

NextImport ==
    \E p \in Procs :
        \/ \E u \in Users, ids \in IdLists : ImportBegin(p, u, ids, "n1")
        \/ ImportRepository(p)
        \/ SnapshotFault(p)
        \/ AddMembership(p)
        \/ MembershipFault(p)
        \/ CommitTransaction(p)
        \/ RetryTransaction(p)
        \/ AbortTransaction(p)

\* One import call, and syncRepository requests before and after it.
NextSync ==
    \/ \E u \in Users, ids \in IdLists, n \in Names : ImportBegin("p1", u, ids, n)
    \/ ImportRepository("p1")
    \/ SnapshotFault("p1")
    \/ AddMembership("p1")
    \/ MembershipFault("p1")
    \/ CommitTransaction("p1")
    \/ RetryTransaction("p1")
    \/ AbortTransaction("p1")
    \/ \E u \in Users, n \in Names : \E i \in 1..Len(repositories) :
          SyncRepository(u, i, n)

-----------------------------------------------------------------------------
(* Concurrent calls of UserRepository.addUserToRepository *)

AddIdle ==
    [pc |-> "idle", userId |-> "none", repositoryId |-> "none", role |-> "none",
     found |-> 0,               \* index of the row findOne returned, 0 for none
     existing |-> <<>>,         \* the document findOne returned
     result |-> "none",         \* "row": a membership is returned, "throw"
     \* history of the call, read only by the properties
     lost |-> FALSE,            \* the call's create met the unique index
     overlapped |-> FALSE]      \* a call giving the same pair another role was
                                \* in flight during this one

InFlight(a) == a.pc \notin {"idle", "done"}

\* save() of a loaded document writes the paths modified since it was
\* loaded and leaves the others as they are in the collection.
SaveModified(current, loaded, modified) ==
    [f \in DOMAIN current |-> IF modified[f] # loaded[f] THEN modified[f] ELSE current[f]]

AddBegin(p, userId, repositoryId, role) ==
    /\ adders[p].pc = "idle"
    /\ LET busy == {q \in Procs \ {p} : /\ InFlight(adders[q])
                                        /\ adders[q].userId = userId
                                        /\ adders[q].repositoryId = repositoryId
                                        /\ adders[q].role # role}
       IN adders' = [q \in Procs |->
            IF q = p
            THEN [AddIdle EXCEPT !.pc = "find", !.userId = userId,
                                 !.repositoryId = repositoryId, !.role = role,
                                 !.overlapped = (busy # {})]
            ELSE IF q \in busy THEN [adders[q] EXCEPT !.overlapped = TRUE]
            ELSE adders[q]]
    /\ UNCHANGED <<awardVars, webhookVars, importVars, seeds, statsCall, prVars, ev>>

\* this.findOne({user, repository})
AddFind(p) ==
    /\ adders[p].pc = "find"
    /\ LET a == adders[p]
           found == UserRepositoryFind(userRepositories, a.userId, a.repositoryId)
       IN adders' = [adders EXCEPT ![p] =
            IF found # {}
            THEN LET i == CHOOSE j \in found : \A k \in found : j <= k
                 IN [a EXCEPT !.pc = "save", !.found = i,
                              !.existing = <<userRepositories[i]>>]
            ELSE [a EXCEPT !.pc = "create"]]
    /\ UNCHANGED <<awardVars, webhookVars, importVars, seeds, statsCall, prVars, ev>>

\* existing.save() after the assignments of the `if (existing)` branch.
AddSave(p) ==
    /\ adders[p].pc = "save"
    /\ LET a == adders[p]
           loaded == a.existing[1]
       IN /\ userRepositories' = [userRepositories EXCEPT ![a.found] =
                SaveModified(@, loaded, UpdatedMembership(loaded, a.role))]
          /\ adders' = [adders EXCEPT ![p] = [a EXCEPT !.pc = "done", !.result = "row"]]
    /\ UNCHANGED <<badges, userBadges, contributions, procs,
                   webhookVars, importVars, seeds, statsCall, prVars, ev>>

\* this.create({...}); on the duplicate-key error the catch returns the row
\* findOne gives.
AddCreate(p) ==
    /\ adders[p].pc = "create"
    /\ LET a == adders[p]
       IN IF UserRepositoryDuplicateKey(userRepositories, a.userId, a.repositoryId)
          THEN /\ userRepositories' = userRepositories
               /\ adders' = [adders EXCEPT ![p] =
                     [a EXCEPT !.pc = "done", !.lost = TRUE,
                               !.result = IF UserRepositoryFind(userRepositories, a.userId,
                                                                a.repositoryId) # {}
                                          THEN "row" ELSE "none"]]
          ELSE /\ userRepositories' =
                     Append(userRepositories,
                            NewUserRepository(a.userId, a.repositoryId, a.role))
               /\ adders' = [adders EXCEPT ![p] = [a EXCEPT !.pc = "done", !.result = "row"]]
    /\ UNCHANGED <<badges, userBadges, contributions, procs,
                   webhookVars, importVars, seeds, statsCall, prVars, ev>>

NextMember ==
    \E p \in Procs :
        \/ \E u \in Users, r \in RunRepos, role \in Roles : AddBegin(p, u, r, role)
        \/ AddFind(p)
        \/ AddSave(p)
        \/ AddCreate(p)

-----------------------------------------------------------------------------
(* Calls of Badge.createDefaultBadges *)

\* badgeSchema.index({repository, criteriaType, criteriaValue}, {unique: true}).
BadgeDuplicateKey_noIndex(coll, doc) == FALSE

BadgeDuplicateKey(coll, doc) ==
    \E i \in 1..Len(coll) :
        /\ coll[i].repository = doc.repository
        /\ coll[i].criteriaType = doc.criteriaType
        /\ coll[i].criteriaValue = doc.criteriaValue

\* insertMany(docs, {ordered: false}): every document the unique index
\* admits is inserted, in order; the rest raise the duplicate-key error.
RECURSIVE InsertManyUnordered(_, _)
InsertManyUnordered(coll, docs) ==
    IF docs = <<>> THEN <<>>
    ELSE IF BadgeDuplicateKey(coll, Head(docs))
         THEN InsertManyUnordered(coll, Tail(docs))
         ELSE <<Head(docs)>> \o InsertManyUnordered(Append(coll, Head(docs)), Tail(docs))

SeedIdle ==
    [calls |-> 0, repositoryId |-> "none",
     returned |-> <<>>,         \* what the last call returned
     \* history of the last call, read only by the properties
     inserted |-> <<>>,         \* the rows it inserted
     had |-> FALSE]             \* the repository had its defaults before it

\* Badge.createDefaultBadges(repositoryId, createdBy): the insertMany and
\* the catch that turns the duplicate-key error into an empty list.
CreateDefaultBadges(p, repositoryId) ==
    /\ seeds[p].calls < MaxCalls
    /\ LET docs == createDefaultBadges(repositoryId)
           inserted == InsertManyUnordered(badges, docs)
       IN /\ badges' = badges \o inserted
          /\ seeds' = [seeds EXCEPT ![p] =
                [calls |-> seeds[p].calls + 1, repositoryId |-> repositoryId,
                 returned |-> IF Len(inserted) < Len(docs) THEN <<>> ELSE inserted,
                 inserted |-> inserted,
                 had |-> \A i \in 1..Len(docs) : BadgeDuplicateKey(badges, docs[i])]]
    /\ UNCHANGED <<userBadges, userRepositories, contributions, procs,
                   webhookVars, importVars, adders, statsCall, prVars, ev>>

NextSeed == \E p \in Procs, r \in Repos : CreateDefaultBadges(p, r)

-----------------------------------------------------------------------------
(* Live statistics of one user *)

\* What can fail upstream: the pull-request listing, the commit listing of
\* the first merged pull request, its detail fetch, the author-filtered
\* commit listing.
Failures == {"none", "list", "commits", "details", "direct"}

\* Commit counts of the user's merged pull requests, in listing order.
PullRequestLists ==
    {<<>>} \cup {<<a>> : a \in {1, 50}} \cup {<<a, b>> : a \in {1, 50}, b \in {1, 50}}

DirectCommits == {0, 60}

Max_sum(a, b) == a + b

Max(a, b) == IF a >= b THEN a ELSE b

\* The loop over the merged pull requests: the commits of a pull request
\* are added unless its commits fetch failed, in which case the catch
\* inside the loop skips the pull request.
RECURSIVE SumCommits(_, _, _)
SumCommits(prs, i, fail) ==
    IF i > Len(prs) THEN 0
    ELSE (IF i = 1 /\ fail = "commits" THEN 0 ELSE prs[i]) + SumCommits(prs, i + 1, fail)

\* BadgeService.fetchGitHubPRStats: <<stats>>, or <<>> when it throws.
fetchGitHubPRStats(userId, prs, direct, fail) ==
    IF fail = "list" THEN <<>>
    ELSE LET prCommits == SumCommits(prs, 1, fail)
             totalCommits == IF fail = "direct" THEN prCommits
                             ELSE Max(prCommits, direct)
         IN <<[userId |-> userId, mergedPRs |-> Len(prs), totalCommits |-> totalCommits]>>

\* BadgeService.getContributorStats(repoId, userId): the catch returns [].
getContributorStats(userId, prs, direct, fail) ==
    fetchGitHubPRStats(userId, prs, direct, fail)

\* The default badges an evaluation of these statistics awards to a user
\* who holds none.
AwardsOn(userStats) ==
    IF Len(userStats) = 0 THEN {}
    ELSE {i \in 1..Len(defaultBadges) : checkBadgeEligibility(userStats[1], defaultBadges[i])}

StIdle(prs, direct, fail) ==
    [called |-> FALSE, prs |-> prs, direct |-> direct, fail |-> fail,
     stats |-> <<>>, awards |-> {}]

\* One evaluation of user u1 over the live statistics.
ComputeStats ==
    /\ ~statsCall.called
    /\ LET userStats == getContributorStats("u1", statsCall.prs, statsCall.direct, statsCall.fail)
       IN statsCall' = [statsCall EXCEPT !.called = TRUE, !.stats = userStats,
                           !.awards = AwardsOn(userStats)]
    /\ UNCHANGED <<awardVars, webhookVars, importVars, adders, seeds, prVars, ev>>

NextStats == ComputeStats

-----------------------------------------------------------------------------
(* The requests of fetchGitHubPRStats, one by one *)

PerPage == 100          \* per_page of both listings
PullsPageCap == 10      \* while (hasMore && page <= 10)
CommitsPageCap == 5     \* while (hasMoreCommits && commitPage <= 5)

\* Lengths of the pages upstream can answer with: empty, short, full.
PageSizes == {0, 50, PerPage}

\* hasMore = prs.length === 100
HasMore_always(n) == TRUE

HasMore(n) == n = PerPage

PagerIdle ==
    [pc |-> "pulls",
     page |-> 1, hasMore |-> TRUE,
     merged |-> 0,              \* merged pull requests of the user in allPRs
     i |-> 0,                   \* merged pull requests whose commits were asked for
     commitPage |-> 1, hasMoreCommits |-> TRUE,
     result |-> "none",         \* "stats" or "thrown"
     \* history of the call, read only by the properties
     pullsShort |-> FALSE,      \* a pull-request page came back short
     commitsShort |-> FALSE,    \* a commit page came back short
     afterShort |-> 0]          \* pages requested after a short one

\* Where the call goes when the pull-request loop is left.
AfterPulls(c) ==
    IF c.hasMore /\ c.page <= PullsPageCap THEN c
    ELSE IF c.merged > 0 THEN [c EXCEPT !.pc = "prCommits"]
    ELSE [c EXCEPT !.pc = "commits"]

\* Where the call goes when the commit loop is left.
AfterCommits(c) ==
    IF c.hasMoreCommits /\ c.commitPage <= CommitsPageCap THEN c
    ELSE [c EXCEPT !.pc = "done", !.result = "stats"]

\* One page of the pull-request listing: n items, m of them merged pull
\* requests of the user.
PullsPage(n, m) ==
    /\ statsCall.pc = "pulls"
    /\ statsCall.hasMore /\ statsCall.page <= PullsPageCap
    /\ m <= n
    /\ statsCall' = AfterPulls(
          [statsCall EXCEPT !.merged = @ + m, !.hasMore = HasMore(n), !.page = @ + 1,
                            !.pullsShort = @ \/ n < PerPage,
                            !.afterShort = @ + (IF statsCall.pullsShort THEN 1 ELSE 0)])
    /\ UNCHANGED <<awardVars, webhookVars, importVars, adders, seeds, prVars, ev>>

\* A page of the pull-request listing fails: the outer catch rethrows.
PullsPageFails ==
    /\ statsCall.pc = "pulls"
    /\ statsCall.hasMore /\ statsCall.page <= PullsPageCap
    /\ statsCall' = [statsCall EXCEPT !.pc = "done", !.result = "thrown"]
    /\ UNCHANGED <<awardVars, webhookVars, importVars, adders, seeds, prVars, ev>>

\* The commits and detail requests of the next merged pull request, answered
\* or failed (the catch inside the loop goes on either way).
PullRequestCommits ==
    /\ statsCall.pc = "prCommits"
    /\ statsCall' = [statsCall EXCEPT !.i = @ + 1,
                                      !.pc = IF statsCall.i + 1 < statsCall.merged
                                             THEN "prCommits" ELSE "commits"]
    /\ UNCHANGED <<awardVars, webhookVars, importVars, adders, seeds, prVars, ev>>

\* One page of the author-filtered commit listing: n commits.
CommitsPage(n) ==
    /\ statsCall.pc = "commits"
    /\ statsCall.hasMoreCommits /\ statsCall.commitPage <= CommitsPageCap
    /\ statsCall' = AfterCommits(
          [statsCall EXCEPT !.hasMoreCommits = HasMore(n), !.commitPage = @ + 1,
                            !.commitsShort = @ \/ n < PerPage,
                            !.afterShort = @ + (IF statsCall.commitsShort THEN 1 ELSE 0)])
    /\ UNCHANGED <<awardVars, webhookVars, importVars, adders, seeds, prVars, ev>>

\* A page of the commit listing fails: the catch around the loop warns and
\* the statistics are returned.
CommitsPageFails ==
    /\ statsCall.pc = "commits"
    /\ statsCall.hasMoreCommits /\ statsCall.commitPage <= CommitsPageCap
    /\ statsCall' = [statsCall EXCEPT !.pc = "done", !.result = "stats"]
    /\ UNCHANGED <<awardVars, webhookVars, importVars, adders, seeds, prVars, ev>>

NextPages ==
    \/ \E n \in PageSizes, m \in {0, 1} : PullsPage(n, m)
    \/ PullsPageFails
    \/ PullRequestCommits
    \/ \E n \in PageSizes : CommitsPage(n)
    \/ CommitsPageFails

-----------------------------------------------------------------------------
(* Concurrent importRepositories calls, each over one snapshot *)

\* A write of a Repository document with this upstream id inside call p's
\* transaction is rejected: the unique index on githubId meets a committed
\* row the transaction did not write itself (duplicate key), or a row
\* another open transaction has written (write conflict).
RepositoryWriteRejected_noIndex(p, id, githubId) == FALSE

RepositoryWriteRejected(p, id, githubId) ==
    \/ \E i \in 1..Len(repositories) :
          repositories[i].githubId = githubId /\ repositories[i].id # id
    \/ \E q \in Procs \ {p} : \E i \in 1..Len(importers[q].txn) :
          importers[q].txn[i].githubId = githubId

RaceBegin(p, userId, githubId) ==
    /\ importers[p].pc = "idle"
    /\ importers' = [importers EXCEPT ![p] =
         [ImportIdle EXCEPT
            !.pc = "find", !.userId = userId, !.gi = 1,
            !.githubRepos = <<GithubRepo(userId, githubId, "n1")>>,
            !.pre = repositories, !.preMembers = userRepositories]]
    /\ UNCHANGED <<awardVars, webhookVars, repositories, unitVars, prVars, ev>>

\* Repository.findOne({githubId}).session(session): the first operation of
\* the transaction, it reads the committed rows.
RaceFind(p) ==
    /\ importers[p].pc = "find"
    /\ LET c == importers[p]
           githubRepo == c.githubRepos[c.gi]
           found == RepositoryFindOne(repositories, githubRepo.id)
       IN importers' = [importers EXCEPT ![p] =
            IF found # <<>>
            THEN [c EXCEPT !.pc = "sync", !.repository = found[1].id,
                           !.userRole = githubRepo.userRole]
            ELSE [c EXCEPT !.pc = "save", !.repository = NewRepositoryId(p),
                           !.userRole = githubRepo.userRole]]
    /\ UNCHANGED <<awardVars, webhookVars, repositories, unitVars, prVars, ev>>

\* A rejected write aborts the transaction on the server; the catch of the
\* loop body records the error and the callback returns.
RaceRejected(c, githubRepo) ==
    [c EXCEPT !.pc = "aborted", !.txn = <<>>, !.errors = Append(@, githubRepo.id)]

\* repository.syncData(githubRepo) of the branch for an existing row, and
\* results.updated.push.
RaceSync(p) ==
    /\ importers[p].pc = "sync"
    /\ LET c == importers[p]
           githubRepo == c.githubRepos[c.gi]
           row == RepositoryFindOne(repositories, githubRepo.id)[1]
       IN importers' = [importers EXCEPT ![p] =
            IF RepositoryWriteRejected(p, c.repository, githubRepo.id)
            THEN RaceRejected(c, githubRepo)
            ELSE [c EXCEPT !.pc = "member",
                           !.txn = <<syncData(row, githubRepo, "import")>>,
                           !.updated = Append(@, [id |-> c.repository,
                                                  githubId |-> githubRepo.id,
                                                  role |-> c.userRole])]]
    /\ UNCHANGED <<awardVars, webhookVars, repositories, unitVars, prVars, ev>>

\* repository.save({session}) of the new Repository document.
RaceSave(p) ==
    /\ importers[p].pc = "save"
    /\ LET c == importers[p]
           githubRepo == c.githubRepos[c.gi]
           repoOwnerId == IF githubRepo.ownerLogin \in Users
                          THEN githubRepo.ownerLogin ELSE c.userId
       IN importers' = [importers EXCEPT ![p] =
            IF RepositoryWriteRejected(p, c.repository, githubRepo.id)
            THEN RaceRejected(c, githubRepo)
            ELSE [c EXCEPT !.pc = "seed",
                           !.txn = <<[id |-> c.repository, githubId |-> githubRepo.id,
                                      owner |-> repoOwnerId, name |-> githubRepo.name,
                                      lastSyncAt |-> "import", badges |-> <<>>]>>]]
    /\ UNCHANGED <<awardVars, webhookVars, repositories, unitVars, prVars, ev>>

\* Badge.find for the new repository, Badge.createDefaultBadges (outside
\* the session), the second repository.save and results.imported.push.
RaceSeed(p) ==
    /\ importers[p].pc = "seed"
    /\ LET c == importers[p]
           githubRepo == c.githubRepos[c.gi]
           existingBadges == BadgeFindDefault(badges, c.repository)
           docs == IF SeedsBadges(existingBadges, c.userRole)
                   THEN createDefaultBadges(c.repository) ELSE <<>>
           inserted == InsertManyUnordered(badges, docs)
           created == IF Len(inserted) < Len(docs) THEN <<>> ELSE inserted
       IN /\ badges' = badges \o inserted
          /\ importers' = [importers EXCEPT ![p] =
                [c EXCEPT !.pc = "member",
                          !.txn = IF Len(created) > 0
                                  THEN <<[c.txn[1] EXCEPT !.badges = BadgeIdsOf(created)]>>
                                  ELSE @,
                          !.badgesCreated = @ + Len(created),
                          !.imported = Append(@, [id |-> c.repository,
                                                  githubId |-> githubRepo.id,
                                                  role |-> c.userRole])]]
    /\ UNCHANGED <<userBadges, userRepositories, contributions, procs,
                   webhookVars, repositories, unitVars, prVars, ev>>

\* UserRepository.addUserToRepository(userId, repository._id, userRole) is
\* entered; its steps are AddFind, AddSave and AddCreate.
RaceMember(p) ==
    /\ importers[p].pc = "member"
    /\ AddBegin(p, importers[p].userId, importers[p].repository, importers[p].userRole)

\* addUserToRepository has returned: the loop is over.
RaceMemberDone(p) ==
    /\ importers[p].pc = "member"
    /\ adders[p].pc = "done"
    /\ importers' = [importers EXCEPT ![p] = [@ EXCEPT !.pc = "commit"]]
    /\ adders' = [adders EXCEPT ![p] = AddIdle]
    /\ UNCHANGED <<awardVars, webhookVars, repositories, seeds, statsCall, prVars, ev>>

\* withTransaction commits.
RaceCommit(p) ==
    /\ importers[p].pc = "commit"
    /\ repositories' = Overlay(repositories, importers[p].txn)
    /\ importers' = [importers EXCEPT ![p] = [@ EXCEPT !.pc = "done", !.txn = <<>>]]
    /\ UNCHANGED <<awardVars, webhookVars, unitVars, prVars, ev>>

\* The commit of the aborted transaction is answered with a transient
\* transaction error: withTransaction runs the callback again, over the
\* same results object.
RaceRetry(p) ==
    /\ importers[p].pc = "aborted"
    /\ importers[p].attempt < MaxRetries
    /\ importers' = [importers EXCEPT ![p] =
         [@ EXCEPT !.pc = "find", !.attempt = @ + 1]]
    /\ UNCHANGED <<awardVars, webhookVars, repositories, unitVars, prVars, ev>>

\* withTransaction gives up: the outer catch sets success to false.
RaceGiveUp(p) ==
    /\ importers[p].pc = "aborted"
    /\ importers' = [importers EXCEPT ![p] =
         [@ EXCEPT !.pc = "done", !.success = FALSE, !.txFault = TRUE]]
    /\ UNCHANGED <<awardVars, webhookVars, repositories, unitVars, prVars, ev>>

NextRace ==
    \E p \in Procs :
        \/ \E u \in Users, g \in GithubIds : RaceBegin(p, u, g)
        \/ RaceFind(p)
        \/ RaceSync(p)
        \/ RaceSave(p)
        \/ RaceSeed(p)
        \/ RaceMember(p)
        \/ AddFind(p)
        \/ AddSave(p)
        \/ AddCreate(p)
        \/ RaceMemberDone(p)
        \/ RaceCommit(p)
        \/ RaceRetry(p)
        \/ RaceGiveUp(p)

-----------------------------------------------------------------------------
(* The pull-request ledger *)

PullIds == {1, 2}

\* The pull_request objects a delivery can carry (the fields the
\* statistics read): commits may be missing or 0.
WebhookPulls == [id : PullIds, merged : BOOLEAN, commits : {0, 3}]

\* prData of createOrUpdateFromWebhook.
PrData(webhookData, repositoryId, userId) ==
    [repository |-> repositoryId, user |-> userId,
     githubPrId |-> webhookData.id,
     merged |-> webhookData.merged,
     commitCount |-> IF webhookData.commits = 0 THEN 1 ELSE webhookData.commits]

\* pullRequestSchema.index({repository, githubPrId}, {unique: true}); also
\* this.findOne({repository, githubPrId}).
PullRequestFind(coll, repositoryId, githubPrId) ==
    {i \in 1..Len(coll) : /\ coll[i].repository = repositoryId
                          /\ coll[i].githubPrId = githubPrId}

\* Object.assign(existingPR, prData)
ObjectAssign_addCounts(existing, prData) ==
    [prData EXCEPT !.commitCount = existing.commitCount + @]

ObjectAssign(existing, prData) ==
    [f \in DOMAIN existing |-> IF f \in DOMAIN prData THEN prData[f] ELSE existing[f]]

IngestIdle ==
    [pc |-> "idle", prData |-> <<>>, found |-> 0, existing |-> <<>>,
     result |-> "none"]         \* "row", or "thrown" for a rejected create

IngestBegin(p, webhookData, repositoryId, userId) ==
    /\ ingests[p].pc = "idle"
    /\ ingests' = [ingests EXCEPT ![p] =
          [IngestIdle EXCEPT !.pc = "find",
                             !.prData = <<PrData(webhookData, repositoryId, userId)>>]]
    /\ UNCHANGED <<awardVars, webhookVars, importVars, unitVars, pullRequests, ev>>

\* this.findOne({repository, githubPrId})
IngestFind(p) ==
    /\ ingests[p].pc = "find"
    /\ LET c == ingests[p]
           hits == PullRequestFind(pullRequests, c.prData[1].repository,
                                   c.prData[1].githubPrId)
       IN ingests' = [ingests EXCEPT ![p] =
            IF hits # {}
            THEN LET i == CHOOSE j \in hits : \A k \in hits : j <= k
                 IN [c EXCEPT !.pc = "save", !.found = i, !.existing = <<pullRequests[i]>>]
            ELSE [c EXCEPT !.pc = "create"]]
    /\ UNCHANGED <<awardVars, webhookVars, importVars, unitVars, pullRequests, ev>>

\* Object.assign(existingPR, prData); existingPR.save()
IngestSave(p) ==
    /\ ingests[p].pc = "save"
    /\ LET c == ingests[p]
           loaded == c.existing[1]
       IN /\ pullRequests' = [pullRequests EXCEPT ![c.found] =
                SaveModified(@, loaded, ObjectAssign(loaded, c.prData[1]))]
          /\ ingests' = [ingests EXCEPT ![p] = [c EXCEPT !.pc = "done", !.result = "row"]]
    /\ UNCHANGED <<awardVars, webhookVars, importVars, unitVars, ev>>

\* this.create(prData); the catch logs and rethrows.
IngestCreate(p) ==
    /\ ingests[p].pc = "create"
    /\ LET c == ingests[p]
           d == c.prData[1]
       IN IF PullRequestFind(pullRequests, d.repository, d.githubPrId) # {}
          THEN /\ pullRequests' = pullRequests
               /\ ingests' = [ingests EXCEPT ![p] =
                     [c EXCEPT !.pc = "done", !.result = "thrown"]]
          ELSE /\ pullRequests' = Append(pullRequests, d)
               /\ ingests' = [ingests EXCEPT ![p] =
                     [c EXCEPT !.pc = "done", !.result = "row"]]
    /\ UNCHANGED <<awardVars, webhookVars, importVars, unitVars, ev>>

NextPulls ==
    \E p \in Procs :
        \/ \E d \in WebhookPulls, r \in RunRepos, u \in Users : IngestBegin(p, d, r, u)
        \/ IngestFind(p)
        \/ IngestSave(p)
        \/ IngestCreate(p)

\* The $group stage over the documents $match lets through, in collection
\* order: per user, the running totals.
RECURSIVE Grouped(_, _, _)
Grouped(coll, repoId, userId) ==
    IF coll = <<>> THEN [userId |-> userId, totalPRs |-> 0, mergedPRs |-> 0, totalCommits |-> 0]
    ELSE LET acc == Grouped(SubSeq(coll, 1, Len(coll) - 1), repoId, userId)
             doc == coll[Len(coll)]
         IN IF doc.repository = repoId /\ doc.user = userId
            THEN [acc EXCEPT !.totalPRs = @ + 1,
                             !.mergedPRs = @ + (IF doc.merged THEN 1 ELSE 0),
                             !.totalCommits = @ + doc.commitCount]
            ELSE acc

\* PullRequest.aggregate([...]) of getContributorStats(repoId): one record
\* per user with a document in the repository.
PullRequestAggregate(coll, repoId) ==
    {Grouped(coll, repoId, u) :
        u \in {x \in Users : \E i \in 1..Len(coll) : coll[i].repository = repoId
                                                     /\ coll[i].user = x}}

-----------------------------------------------------------------------------
(* Evaluator calls on arbitrary arguments *)

EvalContributors ==
    [userId : {"u1"}, mergedPRs : 0..MaxMetric, totalCommits : 0..MaxMetric]

EvalBadges ==
    [id : {"b"}, criteriaType : CriteriaTypes, criteriaValue : 1..MaxMetric]

Evaluate ==
    /\ ~ev.called
    /\ ev' = [ev EXCEPT !.called = TRUE,
                        !.eligible = checkBadgeEligibility(ev.contributor, ev.badge),
                        !.actual = getActualValue(ev.contributor, ev.badge)]
    /\ UNCHANGED <<awardVars, webhookVars, importVars, unitVars, prVars>>

NextEval == Evaluate

-----------------------------------------------------------------------------
(* Initial state *)

\* Both repositories have been imported by their owner u1, which seeded the
\* default badges and u1's memberships; u2 contributes without having
\* imported either.  Nothing has been awarded yet.
AwardInit ==
    /\ badges = createDefaultBadges("r1") \o createDefaultBadges("r2")
    /\ userBadges = <<>>
    /\ userRepositories =
         <<NewUserRepository("u1", "r1", "owner"), NewUserRepository("u1", "r2", "owner")>>
    /\ contributions \in [Users -> 1..Len(StatsLevels)]
    /\ procs = [p \in Procs |-> Idle]

\* No request yet; the secret is configured or not for the whole run.
WebhookInit ==
    /\ webhookSecret \in {"none", "k1"}
    /\ webhookEvents = <<>>
    /\ reqs = [q \in Reqs |-> ReqIdle]

WebhookIdle ==
    /\ webhookSecret = "k1"
    /\ webhookEvents = <<>>
    /\ reqs = [q \in Reqs |-> ReqIdle]

NoCall(c, b) ==
    [called |-> FALSE, contributor |-> c, badge |-> b, eligible |-> FALSE, actual |-> 0]

EvalInit == ev \in {NoCall(c, b) : c \in EvalContributors, b \in EvalBadges}

EvalIdle ==
    ev = NoCall([userId |-> "u1", mergedPRs |-> 0, totalCommits |-> 0],
                [id |-> "b", criteriaType |-> "prs", criteriaValue |-> 1])

AwardIdle ==
    /\ AwardInit
    /\ contributions = [u \in Users |-> 1]

\* No repository imported through this model's import calls, none running.
ImportInit ==
    /\ repositories = <<>>
    /\ importers = [p \in Procs |-> ImportIdle]

\* No call of a single model or service function under way.
UnitIdle ==
    /\ adders = [p \in Procs |-> AddIdle]
    /\ seeds = [p \in Procs |-> SeedIdle]
    /\ statsCall = StIdle(<<>>, 0, "none")
    /\ pullRequests = <<>>
    /\ ingests = [p \in Procs |-> IngestIdle]

Init == AwardInit /\ WebhookIdle /\ EvalIdle /\ ImportInit /\ UnitIdle

\* The awarding engine under concurrent invocations.
Spec == Init /\ [][NextAward]_vars

\* The webhook gateway under concurrent deliveries.
InitWebhook == AwardIdle /\ WebhookInit /\ EvalIdle /\ ImportInit /\ UnitIdle

SpecWebhook == InitWebhook /\ [][NextWebhook]_vars

\* The evaluator on every argument pair within the bounds.
InitEval == AwardIdle /\ WebhookIdle /\ EvalInit /\ ImportInit /\ UnitIdle

SpecEval == InitEval /\ [][NextEval]_vars

\* The awarding engine's initial state, for the ledger's operations.
InitLedger == AwardInit /\ WebhookIdle /\ EvalIdle /\ ImportInit /\ UnitIdle

SpecLedger == InitLedger /\ [][NextLedger]_vars

\* A badge of a criteria type the evaluator never meets, with a threshold
\* every contributor reaches.
StarsBadge(repositoryId) ==
    [id |-> <<repositoryId, Len(defaultBadges) + 1>>, repository |-> repositoryId,
     criteriaType |-> "stars", criteriaValue |-> 1, active |-> TRUE]

\* The catalogs of r1 the Badge schema admits beside the seeded one: the
\* first default badge active or retired, a stars badge; r2 has its defaults.
InitCatalog ==
    /\ badges \in {[createDefaultBadges("r1") EXCEPT ![1].active = a]
                      \o <<StarsBadge("r1")>> \o createDefaultBadges("r2") :
                   a \in BOOLEAN}
    /\ userBadges = <<>>
    /\ userRepositories =
         <<NewUserRepository("u1", "r1", "owner"), NewUserRepository("u1", "r2", "owner")>>
    /\ contributions \in [Users -> 1..Len(StatsLevels)]
    /\ procs = [p \in Procs |-> Idle]
    /\ WebhookIdle /\ EvalIdle /\ ImportInit /\ UnitIdle

SpecCatalog == InitCatalog /\ [][NextLedger]_vars

\* Import calls on an empty database.
InitImport ==
    /\ badges = <<>>
    /\ userBadges = <<>>
    /\ userRepositories = <<>>
    /\ contributions = [u \in Users |-> 1]
    /\ procs = [p \in Procs |-> Idle]
    /\ WebhookIdle /\ EvalIdle /\ ImportInit /\ UnitIdle

SpecImport == InitImport /\ [][NextImport]_vars

\* syncRepository on repositories an import call created.
InitSync == InitImport

SpecSync == InitSync /\ [][NextSync]_vars

\* The collections outside the one a unit call works on: empty.
EmptyDatabase ==
    /\ userBadges = <<>>
    /\ contributions = [u \in Users |-> 1]
    /\ procs = [p \in Procs |-> Idle]
    /\ WebhookIdle /\ EvalIdle /\ ImportInit
    /\ pullRequests = <<>>
    /\ ingests = [p \in Procs |-> IngestIdle]

\* addUserToRepository calls on a collection that holds no row for
\* (u1, r1) or one, of either role, active or not.
InitMember ==
    /\ EmptyDatabase
    /\ badges = <<>>
    /\ userRepositories \in
          {<<>>} \cup {<<[NewUserRepository("u1", "r1", role) EXCEPT !.active = a]>> :
                          role \in Roles, a \in BOOLEAN}
    /\ adders = [p \in Procs |-> AddIdle]
    /\ seeds = [p \in Procs |-> SeedIdle]
    /\ statsCall = StIdle(<<>>, 0, "none")

SpecMember == InitMember /\ [][NextMember]_vars

\* createDefaultBadges calls on a catalog in which each repository has its
\* default badges or none.
InitSeed ==
    /\ EmptyDatabase
    /\ userRepositories = <<>>
    /\ badges \in {<<>>, createDefaultBadges("r1"), createDefaultBadges("r2"),
                   createDefaultBadges("r1") \o createDefaultBadges("r2")}
    /\ adders = [p \in Procs |-> AddIdle]
    /\ seeds = [p \in Procs |-> SeedIdle]
    /\ statsCall = StIdle(<<>>, 0, "none")

SpecSeed == InitSeed /\ [][NextSeed]_vars

\* One statistics computation on every upstream history and failure within
\* the bounds.
InitStats ==
    /\ EmptyDatabase
    /\ userRepositories = <<>>
    /\ badges = <<>>
    /\ adders = [p \in Procs |-> AddIdle]
    /\ seeds = [p \in Procs |-> SeedIdle]
    /\ statsCall \in {StIdle(prs, d, f) : prs \in PullRequestLists, d \in DirectCommits,
                                   f \in Failures}

SpecStats == InitStats /\ [][NextStats]_vars

\* One fetchGitHubPRStats call at its first request.
InitPages ==
    /\ EmptyDatabase
    /\ userRepositories = <<>>
    /\ badges = <<>>
    /\ adders = [p \in Procs |-> AddIdle]
    /\ seeds = [p \in Procs |-> SeedIdle]
    /\ statsCall = PagerIdle

\* Every request is answered or fails in the end, so the call keeps taking
\* steps while it has one to take.
SpecPages == InitPages /\ [][NextPages]_vars /\ WF_vars(NextPages)

\* Concurrent import calls on an empty database.
InitRace == InitImport

SpecRace == InitRace /\ [][NextRace]_vars

\* createOrUpdateFromWebhook calls on a ledger that is empty or holds one
\* pull request of r1, or of another repository.
InitPulls ==
    /\ badges = <<>> /\ userBadges = <<>> /\ userRepositories = <<>>
    /\ contributions = [u \in Users |-> 1]
    /\ procs = [p \in Procs |-> Idle]
    /\ WebhookIdle /\ EvalIdle /\ ImportInit
    /\ adders = [p \in Procs |-> AddIdle]
    /\ seeds = [p \in Procs |-> SeedIdle]
    /\ statsCall = StIdle(<<>>, 0, "none")
    /\ pullRequests \in
          {<<>>} \cup {<<PrData(d, r, "u1")>> : d \in {x \in WebhookPulls : x.id = 1},
                                                r \in Repos}
    /\ ingests = [p \in Procs |-> IngestIdle]

SpecPulls == InitPulls /\ [][NextPulls]_vars

-----------------------------------------------------------------------------
(* Properties *)

BadgeIds == {badges[i].id : i \in 1..Len(badges)}

Range(seq) == {seq[i] : i \in 1..Len(seq)}

Occurrences(seq, x) == Cardinality({i \in 1..Len(seq) : seq[i] = x})

RECURSIVE SumOccurrences(_, _)
SumOccurrences(ps, x) ==
    IF ps = {} THEN 0
    ELSE LET q == CHOOSE y \in ps : TRUE
         IN Occurrences(procs[q].newAwards, x) + SumOccurrences(ps \ {q}, x)

\* C1: the Award ledger never holds more than one row for a (user, badge)
\* pair, whatever invocations of the three entry points interleave.
AtMostOneAwardPerUserBadge ==
    \A u \in Users, b \in BadgeIds : Cardinality(RowsFor(userBadges, u, b)) <= 1

\* Two invocations raced on one pair and the ledger arbitrated.
RaceArbitrated ==
    \E p \in Procs : \E x \in procs[p].lost :
        Cardinality(RowsFor(userBadges, x[1], x[2])) = 1

\* C2: an invocation started on a repository after an Award row for (U, B)
\* exists leaves that row as it was, the only one for (U, B), and lists B
\* neither among its new awards nor among its errors.
IdempotentAfterAward ==
    \A p \in Procs : \A r \in procs[p].preexisting :
        /\ r \in RowSet(userBadges)
        /\ Cardinality(RowsFor(userBadges, r.user, r.badge)) = 1
        /\ <<r.user, r.badge>> \notin Range(procs[p].newAwards)
        /\ <<r.user, r.badge>> \notin Range(procs[p].errors)
        /\ <<r.user, r.badge>> \notin procs[p].inserted

\* A forced batch re-check has run to its end over a contributor who
\* already held an Award.
ForcedRecheckOverAwarded ==
    \E p \in Procs :
        /\ procs[p].pc = "done" /\ procs[p].kind = "batch" /\ procs[p].forceRecheck
        /\ \E r \in procs[p].preexisting : \E i \in 1..Len(procs[p].contributors) :
              /\ procs[p].contributors[i].userId = r.user
              /\ checkBadgeEligibility(procs[p].contributors[i],
                                       CHOOSE b \in Range(badges) : b.id = r.badge)

\* C3: an invocation whose insert hit the uniqueness constraint goes on
\* normally: nothing in its error list, the badge not counted, exactly one
\* row for the pair; and when no storage fault struck, the invocations
\* together report the pair as newly awarded exactly once.
LosingRaceIsNoOp ==
    \A p \in Procs : \A x \in procs[p].lost :
        /\ x \notin Range(procs[p].errors)
        /\ x \notin Range(procs[p].newAwards)
        /\ procs[p].faults = 0 => procs[p].success
        /\ Cardinality(RowsFor(userBadges, x[1], x[2])) = 1
        /\ (\A q \in Procs : procs[q].faults = 0) => SumOccurrences(Procs, x) = 1

\* Both racing invocations have returned, without any storage fault.
RaceFinished ==
    /\ \A q \in Procs : procs[q].pc = "done" /\ procs[q].faults = 0
    /\ \E p \in Procs : procs[p].lost # {}

\* The threshold test, stated on the catalog rather than by the evaluator.
MeetsThreshold(c, b) ==
    \/ b.criteriaType = "prs" /\ c.mergedPRs >= b.criteriaValue
    \/ b.criteriaType = "commits" /\ c.totalCommits >= b.criteriaValue

EligibleIds(c, repositoryId) ==
    {b.id : b \in {x \in Range(badges) :
        x.repository = repositoryId /\ x.active /\ MeetsThreshold(c, x)}}

AwardedIds(userId) ==
    {userBadges[i].badge : i \in {j \in 1..Len(userBadges) : userBadges[j].user = userId}}

\* The run went through its badge loop and no write of it failed.
RanClean(s) ==
    /\ s.pc = "done" /\ s.faults = 0 /\ s.success /\ s.status # 404
    /\ Len(s.contributors) > 0

\* C5: a fault-free run for a user who held no Award in the repository
\* inserts Awards only for active badges of that repository whose threshold
\* the user's statistics meet, and leaves every such badge awarded; when it
\* ran alone, the user's Awards, the rows it inserted and the awards it
\* reports are exactly those badges.
ExactlyEligibleAwarded ==
    \A p \in Procs : RanClean(procs[p]) =>
        \A i \in 1..Len(procs[p].contributors) :
            LET c == procs[p].contributors[i]
                eligible == EligibleIds(c, procs[p].repositoryId)
                mine == {x[2] : x \in {y \in procs[p].inserted : y[1] = c.userId}}
            IN (\A r \in procs[p].preexisting : r.user # c.userId) =>
                  /\ mine \subseteq eligible
                  /\ eligible \subseteq AwardedIds(c.userId)
                  /\ (\A q \in Procs \ {p} : procs[q].pc = "idle") =>
                        /\ AwardedIds(c.userId) = eligible
                        /\ mine = eligible
                        /\ {x[2] : x \in {y \in Range(procs[p].newAwards) : y[1] = c.userId}}
                              = eligible

\* mergedPRs = 5 against prs thresholds 1, 5 and 20: a single-user run
\* alone awarded the first two and not the third.
FiveMergedAwardsTwoOfThree ==
    \E p \in Procs :
        /\ RanClean(procs[p]) /\ procs[p].kind \in {"event", "check"}
        /\ \A q \in Procs \ {p} : procs[q].pc = "idle"
        /\ procs[p].contributors[1].mergedPRs = 5
        /\ {<<procs[p].userId, <<"r1", 1>>>>, <<procs[p].userId, <<"r1", 2>>>>}
              \subseteq procs[p].inserted
        /\ <<"r1", 3>> \notin AwardedIds(procs[p].userId)

\* C4: for a prs badge the evaluator answers true exactly when
\* mergedPRs >= threshold, for a commits badge exactly when
\* totalCommits >= threshold.
ThresholdBoundary ==
    ev.called =>
        /\ ev.badge.criteriaType = "prs" =>
              (ev.eligible <=> ev.contributor.mergedPRs >= ev.badge.criteriaValue)
        /\ ev.badge.criteriaType = "commits" =>
              (ev.eligible <=> ev.contributor.totalCommits >= ev.badge.criteriaValue)

\* The evaluator accepted a contributor exactly at the threshold.
EligibleAtThreshold ==
    /\ ev.called /\ ev.badge.criteriaType = "prs"
    /\ ev.contributor.mergedPRs = ev.badge.criteriaValue
    /\ ev.eligible

\* The evaluator refused a contributor one short of the threshold.
IneligibleBelowThreshold ==
    /\ ev.called /\ ev.badge.criteriaType = "prs"
    /\ ev.contributor.mergedPRs = ev.badge.criteriaValue - 1
    /\ ~ev.eligible

\* C6: for issues, reviews, stars and forks the evaluator answers false and
\* the actual value is 0; for prs and commits the actual value is the metric
\* the threshold is compared with.
InertCriteriaTypes ==
    ev.called =>
        /\ ev.badge.criteriaType \in {"issues", "reviews", "stars", "forks"} =>
              ~ev.eligible /\ ev.actual = 0
        /\ ev.badge.criteriaType = "prs" => ev.actual = ev.contributor.mergedPRs
        /\ ev.badge.criteriaType = "commits" => ev.actual = ev.contributor.totalCommits

\* An inert badge was evaluated for a contributor whose metrics both reach
\* its threshold.
InertEvaluated ==
    /\ ev.called /\ ev.badge.criteriaType = "stars"
    /\ ev.contributor.mergedPRs >= ev.badge.criteriaValue
    /\ ev.contributor.totalCommits >= ev.badge.criteriaValue
    /\ ~ev.eligible

\* The request's signature header is the HMAC of its raw body under the
\* configured secret.
SignatureValid(r) ==
    /\ r.signature.present
    /\ webhookSecret # "none"
    /\ r.signature.value = ExpectedSignature(webhookSecret, r.rawBody)

StoredBy == {q \in Reqs : reqs[q].stored = "ok"}

\* C7: a request whose signature is missing or is not the HMAC of its raw
\* body creates no WebhookEvent row and runs no handler; the ledger holds
\* only the rows of requests that were stored.
NoPersistOnBadSignature ==
    /\ Len(webhookEvents) = Cardinality(StoredBy)
    /\ \A q \in Reqs : (reqs[q].pc # "idle" /\ ~SignatureValid(reqs[q])) =>
          /\ reqs[q].pc = "done"
          /\ reqs[q].stored = "no"
          /\ reqs[q].handler = "none"

\* A well-formed delivery signed with another key was turned away.
ForgedSignatureRejected ==
    \E q \in Reqs :
        /\ reqs[q].pc = "done" /\ IsJson(reqs[q].rawBody)
        /\ webhookSecret = "k1"
        /\ reqs[q].signature = Header(ExpectedSignature("k2", reqs[q].rawBody))
        /\ reqs[q].stored = "no"

\* C8: every request reaching handleWebhook whose signature is missing or
\* differs from the expected one, or that arrives with no secret configured,
\* is answered 401.
BadSignatureAnswered401 ==
    \A q \in Reqs :
        (reqs[q].pc = "done" /\ IsJson(reqs[q].rawBody) /\ ~SignatureValid(reqs[q]))
            => reqs[q].status = 401

\* C9: the WebhookEvent ledger holds at most one row per delivery id.
AtMostOneRowPerDeliveryId ==
    \A d \in DeliveryIds \cup {"none"} :
        Cardinality({i \in 1..Len(webhookEvents) : webhookEvents[i].deliveryId = d}) <= 1

\* A verified redelivery met the row of the first delivery.
RedeliveryMetRow ==
    \E q \in Reqs :
        /\ reqs[q].stored = "dup"
        /\ \E i \in 1..Len(webhookEvents) : webhookEvents[i].deliveryId = reqs[q].deliveryId

\* C10: a verified delivery whose delivery id is already in the ledger runs
\* no handler and no awarding-engine invocation.
DuplicateNotReprocessed ==
    \A q \in Reqs : reqs[q].stored = "dup" =>
        reqs[q].handler = "none" /\ reqs[q].engineCalls = 0

\* C11: every verified event that was recorded in the WebhookEvent ledger is
\* answered 200, whether or not its handler fails.
RecordedEventAnswered200 ==
    \A q \in Reqs :
        (reqs[q].pc = "done" /\ reqs[q].stored = "ok") => reqs[q].status = 200

\* C12: whenever a request carrying delivery id d is answered 200, the
\* ledger holds a row with deliveryId d.
AnsweredDeliveryRecorded ==
    \A q \in Reqs :
        (reqs[q].pc = "done" /\ reqs[q].status = 200 /\ reqs[q].deliveryId # "none")
            => \E i \in 1..Len(webhookEvents) :
                   webhookEvents[i].deliveryId = reqs[q].deliveryId

\* C13: a verified pull_request event whose repository and sender resolve
\* locally has invoked awardBadgeForEvent by the time it is answered.
PullRequestInvokesEngine ==
    \A q \in Reqs :
        (/\ reqs[q].pc = "done" /\ reqs[q].handler = "pull_request"
         /\ ResolvesLocally(reqs[q].rawBody))
            => reqs[q].engineCalls >= 1

\* C14: a request whose signature is invalid is answered 401 also when its
\* body is not well-formed JSON.
MalformedBodyBadSignatureAnswered401 ==
    \A q \in Reqs :
        (reqs[q].pc = "done" /\ ~IsJson(reqs[q].rawBody) /\ ~SignatureValid(reqs[q]))
            => reqs[q].status = 401

\* C15: a verified event whose type is none of the ten known ones goes to
\* the generic handler and is answered 200, and when it carries a delivery
\* id and the ledger accepts the write, the ledger holds its row.
UnknownTypeStillHandled ==
    \A q \in Reqs :
        (/\ reqs[q].pc = "done" /\ IsJson(reqs[q].rawBody) /\ SignatureValid(reqs[q])
         /\ reqs[q].event \notin KnownEventTypes \cup {"none"})
            => /\ reqs[q].handler = "generic"
               /\ reqs[q].status = 200
               /\ reqs[q].stored # "invalid" \/ reqs[q].deliveryId = "none"
               /\ (reqs[q].deliveryId # "none" /\ reqs[q].stored # "failed") =>
                      \E i \in 1..Len(webhookEvents) :
                          webhookEvents[i].deliveryId = reqs[q].deliveryId
               /\ reqs[q].stored = "ok" =>
                      \E i \in 1..Len(webhookEvents) :
                          webhookEvents[i] = [eventType |-> reqs[q].event,
                                              deliveryId |-> reqs[q].deliveryId]

\* A verified ping delivery went through the generic handler, left its row
\* and was answered 200.
UnknownTypeAcknowledged ==
    \E q \in Reqs :
        /\ reqs[q].pc = "done" /\ reqs[q].event = "ping" /\ SignatureValid(reqs[q])
        /\ reqs[q].handler = "generic" /\ reqs[q].stored = "ok"
        /\ reqs[q].status = 200
        /\ [eventType |-> "ping", deliveryId |-> reqs[q].deliveryId] \in Range(webhookEvents)

\* Upstream ids of the entries of a result list.
ListedIds(entries) == {entries[i].githubId : i \in 1..Len(entries)}

\* C16: when a user's import of a snapshot has succeeded and the same user
\* then imports the same snapshot again with success, neither pass over the
\* snapshot having met a database error, the Repository
\* collection holds exactly one row for that upstream id and the membership
\* collection exactly one row for (user, repository); the second call lists
\* the snapshot under updated and not under imported, and no Badge row was
\* created for it by the second call.
ReimportIsUpdate ==
    \A p \in Procs : \A q \in importers[p].after :
        LET c == importers[p]
            first == importers[q]
        IN (/\ c.pc = "done" /\ c.success /\ first.success
            /\ c.userId = first.userId)
           => \A g \in {x \in Range(c.githubRepos) \cap Range(first.githubRepos) :
                            /\ x.id \notin Range(first.errors)
                            /\ c.faults = 0 \/ x.id \notin Range(c.errors)} :
                LET rows == SelectSeq(repositories, LAMBDA r : r.githubId = g.id)
                IN /\ Len(rows) = 1
                   /\ Cardinality(UserRepositoryFind(userRepositories, c.userId,
                                                     rows[1].id)) = 1
                   /\ g.id \in ListedIds(c.updated)
                   /\ g.id \notin ListedIds(c.imported)
                   /\ rows[1].id[1] = q
                   /\ \A i \in 1..Len(badges) : badges[i].repository[1] # p
                          \/ badges[i].repository[3] # g.id

\* A user imported one snapshot twice, both times with success.
ImportedTwice ==
    \E p \in Procs : \E q \in importers[p].after :
        /\ importers[p].pc = "done" /\ importers[p].success /\ importers[q].success
        /\ importers[p].userId = importers[q].userId
        /\ importers[p].githubRepos = importers[q].githubRepos
        /\ importers[p].errors = <<>> /\ importers[q].errors = <<>>
        /\ Len(importers[p].updated) >= 1

\* The (criteriaType, criteriaValue) pairs of a list of badges.
CriteriaOf(bs) == [i \in 1..Len(bs) |-> <<bs[i].criteriaType, bs[i].criteriaValue>>]

\* C17: every pass over a snapshot whose upstream id is unknown, made with
\* role owner, creates exactly the four default badges (prs 1, prs 5,
\* prs 20, commits 50) for the new repository, saves the repository with
\* exactly their four ids as its badges list, and adds 4 to badgesCreated.
OwnerImportSeedsDefaults ==
    [][\A p \in Procs :
         LET c == importers[p]
             d == importers'[p]
         IN (/\ Len(d.imported) = Len(c.imported) + 1
             /\ d.imported[Len(d.imported)].role = "owner")
            => LET id == d.imported[Len(d.imported)].id
                   seeded == SelectSeq(badges', LAMBDA b : b.repository = id)
                   row == d.txn[Len(d.txn)]
               IN /\ SelectSeq(badges, LAMBDA b : b.repository = id) = <<>>
                  /\ CriteriaOf(seeded) =
                        << <<"prs", 1>>, <<"prs", 5>>, <<"prs", 20>>, <<"commits", 50>> >>
                  /\ Len(badges') = Len(badges) + 4
                  /\ row.id = id
                  /\ row.badges = [i \in 1..4 |-> seeded[i].id]
                  /\ Cardinality(Range(row.badges)) = 4
                  /\ d.badgesCreated = c.badgesCreated + 4]_vars

\* An owner's import of a new repository has committed: the row carries
\* four badge ids and the call reports four badges created.
OwnerImportCommitted ==
    \E p \in Procs :
        /\ importers[p].pc = "done" /\ importers[p].success
        /\ importers[p].badgesCreated = 4
        /\ \E i \in 1..Len(importers[p].imported), j \in 1..Len(repositories) :
              /\ importers[p].imported[i].role = "owner"
              /\ repositories[j].id = importers[p].imported[i].id
              /\ Len(repositories[j].badges) = 4
              /\ Len(BadgeFindDefault(badges, repositories[j].id)) = 4

\* C18: a repository newly created by an import made with role contributor
\* has no Badge rows, and badgesCreated counts 4 per repository imported as
\* owner and nothing else.
ContributorImportSeedsNothing ==
    \A p \in Procs :
        LET c == importers[p]
            owned == {i \in 1..Len(c.imported) : c.imported[i].role = "owner"}
        IN /\ \A i \in 1..Len(c.imported) :
                 c.imported[i].role = "contributor" =>
                     BadgeFindDefault(badges, c.imported[i].id) = <<>>
           /\ c.badgesCreated = 4 * Cardinality(owned)

\* C19: an import call whose transaction failed returns success = false
\* with empty imported and updated lists.
FailedImportListsNothing ==
    \A p \in Procs :
        (importers[p].pc = "done" /\ ~importers[p].success)
            => importers[p].imported = <<>> /\ importers[p].updated = <<>>

\* C20: after an import call whose transaction aborted, the Repository and
\* membership collections are what they were when the call began and no
\* Badge row of a repository created by the call exists.
AbortLeavesNothing ==
    \A p \in Procs :
        (/\ importers[p].pc = "done" /\ ~importers[p].success
         /\ \A q \in Procs \ {p} : importers[q].pc = "idle" \/ q \in importers[p].after)
            => /\ repositories = importers[p].pre
               /\ userRepositories = importers[p].preMembers
               /\ \A i \in 1..Len(badges) : badges[i].repository[1] # p

\* C25: in the batch and the single-user entry points, an invocation that
\* met a failure while creating an award lists it among its errors, stays
\* successful, and reports every award it created.
PerBadgeFailureCaptured ==
    \A p \in Procs :
        (/\ procs[p].pc = "done" /\ procs[p].kind \in {"batch", "event"}
         /\ procs[p].faults > 0)
            => /\ Len(procs[p].errors) >= 1
               /\ procs[p].success
               /\ procs[p].inserted \subseteq Range(procs[p].newAwards)

\* C26: a single-user real-time invocation whose statistics came back empty
\* ends successful, with zero awards, having created none.
NoStatsIsEmptySuccess ==
    \A p \in Procs :
        (/\ procs[p].pc = "done" /\ procs[p].kind = "event"
         /\ procs[p].contributors = <<>>)
            => /\ procs[p].success
               /\ procs[p].awardsGiven = 0
               /\ procs[p].inserted = {}

\* The awardedBy value that belongs to a trigger kind.
AwardedByOf(triggeringEvent) ==
    CASE triggeringEvent = "webhook_event" -> "webhook"
      [] triggeringEvent = "manual_check" -> "manual"
      [] OTHER -> "system"

\* C27: every Award row carries the awardedBy value of the trigger kind of
\* the invocation that created it.
AwardedByFollowsTrigger ==
    \A i \in 1..Len(userBadges) :
        userBadges[i].awardedBy = AwardedByOf(userBadges[i].triggeringEvent)

\* C28: no step deletes an Award row or changes its user, badge, repository,
\* actualValue, awardedBy or trigger; a step changes at most the
\* acknowledged flag of existing rows.
AwardsImmutable ==
    [][/\ Len(userBadges') >= Len(userBadges)
       /\ \A i \in 1..Len(userBadges) :
             [userBadges'[i] EXCEPT !.acknowledged = FALSE]
                 = [userBadges[i] EXCEPT !.acknowledged = FALSE]]_vars

\* An Award was acknowledged and another one created after it.
AcknowledgedThenAwarded ==
    \E i, j \in 1..Len(userBadges) :
        /\ i < j
        /\ userBadges[i].acknowledged
        /\ ~userBadges[j].acknowledged
        /\ userBadges[i].actualValue > 0

\* C21: an import call that returns without its transaction having failed
\* returns success = true with one errors entry per error thrown in the
\* loop body, and every snapshot of the input without an errors entry is
\* listed as imported or updated, has its one Repository row with the
\* snapshot's data and the caller's one membership row with the snapshot's
\* role.
SnapshotFailureIsolated ==
    [][\A p \in Procs :
         (/\ importers[p].pc # "done" /\ importers'[p].pc = "done"
          /\ ~importers'[p].txFault)
            => LET d == importers'[p]
               IN /\ d.success
                  /\ Len(d.errors) = d.faults
                  /\ \A g \in Range(d.githubRepos) :
                        g.id \notin Range(d.errors) =>
                           LET rows == SelectSeq(repositories',
                                                 LAMBDA r : r.githubId = g.id)
                               ms == UserRepositoryFind(userRepositories', d.userId,
                                                        rows[1].id)
                           IN /\ g.id \in ListedIds(d.imported) \cup ListedIds(d.updated)
                              /\ Len(rows) = 1
                              /\ rows[1].name = g.name
                              /\ Cardinality(ms) = 1
                              /\ \A i \in ms : userRepositories'[i].role = g.userRole
                                                 /\ userRepositories'[i].active]_vars

\* A call over two snapshots returned success with one of them in errors
\* and the other one imported and committed.
OneSnapshotFailedOtherImported ==
    \E p \in Procs :
        LET d == importers[p]
        IN /\ d.pc = "done" /\ d.success /\ d.faults = 1 /\ Len(d.errors) = 1
           /\ Len(d.githubRepos) = 2
           /\ \E k \in 1..Len(d.imported), j \in 1..Len(repositories) :
                 /\ d.imported[k].githubId \notin Range(d.errors)
                 /\ repositories[j].id = d.imported[k].id

\* C29: a syncRepository step changes, in the Repository rows, nothing but
\* the snapshot fields and lastSyncAt (githubId, owner and badges list stay),
\* and it changes no Badge row, no membership row and no Award row.
SyncTouchesOnlySnapshotFields ==
    [][(importers' = importers /\ repositories' # repositories)
         => /\ Len(repositories') = Len(repositories)
            /\ \A i \in 1..Len(repositories) :
                  [repositories'[i] EXCEPT !.name = "n1", !.lastSyncAt = "sync"]
                      = [repositories[i] EXCEPT !.name = "n1", !.lastSyncAt = "sync"]
            /\ badges' = badges
            /\ userRepositories' = userRepositories
            /\ userBadges' = userBadges]_vars

\* A seeded repository with a member was synced to changed upstream data.
SeededRepositorySynced ==
    \E i \in 1..Len(repositories) :
        /\ repositories[i].lastSyncAt = "sync" /\ repositories[i].name = "n2"
        /\ Len(repositories[i].badges) = 4
        /\ \E p \in Procs :
              /\ importers[p].pc = "done"
              /\ \E k \in 1..Len(importers[p].imported) :
                    /\ importers[p].imported[k].id = repositories[i].id
                    /\ importers[p].githubRepos[1].name = "n1"
        /\ \E j \in 1..Len(userRepositories) :
              userRepositories[j].repository = repositories[i].id

\* The membership rows of a (user, repository) pair.
MembershipsOf(userId, repositoryId) ==
    {i \in 1..Len(userRepositories) :
        /\ userRepositories[i].user = userId
        /\ userRepositories[i].repository = repositoryId}

\* C22: under every interleaving of addUserToRepository calls there is at
\* most one membership row per (user, repository) pair, and a call whose
\* create met the unique index has returned the existing row, not thrown.
OneMembershipPerPair ==
    /\ \A u \in Users, r \in Repos : Cardinality(MembershipsOf(u, r)) <= 1
    /\ \A p \in Procs :
          adders[p].lost => /\ adders[p].pc = "done"
                            /\ adders[p].result = "row"

\* A call lost the race for the unique index and its pair has one row.
LostRaceReturnedRow ==
    \E p \in Procs :
        /\ adders[p].lost
        /\ adders[p].result = "row"
        /\ Cardinality(MembershipsOf(adders[p].userId, adders[p].repositoryId)) = 1

\* C23: when addUserToRepository(U, repo, R) returns, and no call giving
\* the pair another role ran beside it, the one row of (U, repo) has role R,
\* is active, and has canManageBadges and canInviteContributors equal to
\* (R = owner), whatever the row was before the call.
MembershipFollowsRole ==
    [][\A p \in Procs :
          (/\ adders[p].pc # "done"
           /\ adders'[p].pc = "done"
           /\ ~adders'[p].overlapped)
          => LET a == adders'[p]
                 rows == {i \in 1..Len(userRepositories') :
                             /\ userRepositories'[i].user = a.userId
                             /\ userRepositories'[i].repository = a.repositoryId}
             IN /\ Cardinality(rows) = 1
                /\ \A i \in rows :
                      /\ userRepositories'[i].role = a.role
                      /\ userRepositories'[i].active
                      /\ userRepositories'[i].canManageBadges = (a.role = "owner")
                      /\ userRepositories'[i].canInviteContributors = (a.role = "owner")]_vars

\* A call has turned an inactive owner row into an active contributor row
\* without the owner's permissions.
OwnerRowMadeContributor ==
    \E p \in Procs :
        /\ adders[p].pc = "done"
        /\ ~adders[p].overlapped
        /\ adders[p].role = "contributor"
        /\ adders[p].existing # <<>>
        /\ adders[p].existing[1].role = "owner"
        /\ ~adders[p].existing[1].active
        /\ \E i \in MembershipsOf(adders[p].userId, adders[p].repositoryId) :
              /\ userRepositories[i].role = "contributor"
              /\ userRepositories[i].active
              /\ ~userRepositories[i].canManageBadges

\* C24 (as stated): whenever an upstream call fails during the computation
\* of a user's statistics, the evaluation sees empty statistics and awards
\* nothing.
UpstreamFailureAbortsStats ==
    (statsCall.called /\ statsCall.fail # "none")
        => (statsCall.stats = <<>> /\ statsCall.awards = {})

\* The default badges a repository holds with the given criterion.
DefaultsHeld(repositoryId, d) ==
    {i \in 1..Len(badges) :
        /\ badges[i].repository = repositoryId
        /\ badges[i].criteriaType = defaultBadges[d].criteriaType
        /\ badges[i].criteriaValue = defaultBadges[d].criteriaValue}

\* C30: a createDefaultBadges call for a repository that already has its
\* default badges inserts nothing and returns an empty list; after any
\* calls a seeded repository holds each default (criteriaType,
\* criteriaValue) pair exactly once; what a call returns is what it inserted.
SeedingIsIdempotent ==
    /\ \A p \in Procs :
          /\ seeds[p].had => (seeds[p].inserted = <<>> /\ seeds[p].returned = <<>>)
          /\ seeds[p].returned = seeds[p].inserted
          /\ seeds[p].calls > 0 =>
                \A d \in 1..Len(defaultBadges) :
                    Cardinality(DefaultsHeld(seeds[p].repositoryId, d)) = 1
    /\ \A r \in Repos, d \in 1..Len(defaultBadges) :
          Cardinality(DefaultsHeld(r, d)) <= 1

\* A repository was seeded by one call and seeded again by a later one.
SeededTwice ==
    \E p \in Procs, q \in Procs :
        /\ seeds[p].had
        /\ seeds[p].returned = <<>>
        /\ seeds[q].repositoryId = seeds[p].repositoryId
        /\ Len(seeds[q].inserted) = Len(defaultBadges)

\* The commits of a list of merged pull requests.
RECURSIVE CommitsOf(_)
CommitsOf(prs) == IF prs = <<>> THEN 0 ELSE Head(prs) + CommitsOf(Tail(prs))

\* C31: when every commit listing is answered, totalCommits of the live
\* statistics record is the larger of the commits summed over the user's
\* merged pull requests and the commits of the author-filtered listing,
\* never their sum.
TotalCommitsIsMaximum ==
    (statsCall.called /\ statsCall.fail \in {"none", "details"})
        => /\ Len(statsCall.stats) = 1
           /\ LET viaPRs == CommitsOf(statsCall.prs)
                  total == statsCall.stats[1].totalCommits
              IN /\ total >= viaPRs /\ total >= statsCall.direct
                 /\ total \in {viaPRs, statsCall.direct}

\* Both counts were positive and the record holds less than their sum.
BothCountsPositive ==
    /\ statsCall.called /\ statsCall.fail = "none"
    /\ CommitsOf(statsCall.prs) > 0 /\ statsCall.direct > 0
    /\ statsCall.stats[1].totalCommits < CommitsOf(statsCall.prs) + statsCall.direct

\* C32: fetchGitHubPRStats ends whatever upstream answers: it asks for at
\* most 10 pull-request pages and at most 5 commit pages, and asks for no
\* page of a listing after one came back with fewer than 100 items.
PaginationBounded ==
    /\ [](/\ statsCall.page - 1 <= PullsPageCap
          /\ statsCall.commitPage - 1 <= CommitsPageCap
          /\ statsCall.afterShort = 0)
    /\ <>(statsCall.pc = "done")

\* Upstream answered every request with a full page and the call returned
\* statistics after 10 and 5 pages.
FullPagesForever ==
    /\ statsCall.pc = "done" /\ statsCall.result = "stats"
    /\ statsCall.page - 1 = PullsPageCap
    /\ statsCall.commitPage - 1 = CommitsPageCap
    /\ ~statsCall.pullsShort /\ ~statsCall.commitsShort

\* The totals of a set of pull-request records, one record at a time in
\* any order.
RECURSIVE TotalsOf(_, _)
TotalsOf(docs, userId) ==
    IF docs = {} THEN [userId |-> userId, totalPRs |-> 0, mergedPRs |-> 0, totalCommits |-> 0]
    ELSE LET doc == CHOOSE d \in docs : TRUE
             acc == TotalsOf(docs \ {doc}, userId)
         IN [acc EXCEPT !.totalPRs = @ + 1,
                        !.mergedPRs = @ + (IF doc.merged THEN 1 ELSE 0),
                        !.totalCommits = @ + doc.commitCount]

\* C33: the aggregated statistics of a repository are those of the set of
\* its pull-request records, whatever the order of the ledger; and when a
\* createOrUpdateFromWebhook call ends for a record the ledger already holds
\* with the same data, the ledger holds one row for it and every aggregated
\* statistic is what it was.
LedgerStatsIdempotent ==
    /\ [](\A r \in Repos :
            PullRequestAggregate(pullRequests, r) =
               {TotalsOf({d \in Range(pullRequests) : d.repository = r /\ d.user = u}, u) :
                   u \in {x \in Users : \E d \in Range(pullRequests) :
                                           d.repository = r /\ d.user = x}})
    /\ [][\A p \in Procs :
            (/\ ingests[p].pc \in {"save", "create"}
             /\ ingests'[p].pc = "done"
             /\ ingests[p].prData[1] \in Range(pullRequests))
            => LET d == ingests[p].prData[1]
               IN /\ Cardinality(PullRequestFind(pullRequests', d.repository,
                                                 d.githubPrId)) = 1
                  /\ d \in Range(pullRequests')
                  /\ \A r \in Repos : PullRequestAggregate(pullRequests', r) =
                                      PullRequestAggregate(pullRequests, r)]_vars

\* A record was applied again with the same data to a ledger of two rows.
RecordReapplied ==
    \E p \in Procs :
        /\ ingests[p].pc = "done" /\ ingests[p].result = "row"
        /\ ingests[p].existing = ingests[p].prData
        /\ ingests[p].prData[1] \in Range(pullRequests)
        /\ Len(pullRequests) = 2

BadgeById(id) == badges[CHOOSE j \in 1..Len(badges) : badges[j].id = id]

\* C35: the Award row an evaluation inserts has, as actualValue, the
\* mergedPRs (prs badge) or totalCommits (commits badge) of the statistics
\* record the evaluation used, and that value is at least the badge's
\* criteriaValue; it stays so while the row exists.
ActualValueMeetsThreshold ==
    /\ [](\A i \in 1..Len(userBadges) :
            userBadges[i].actualValue >= BadgeById(userBadges[i].badge).criteriaValue)
    /\ [][Len(userBadges') = Len(userBadges) + 1
            => LET row == userBadges'[Len(userBadges')]
                   s == procs["p1"]
                   c == s.contributors[s.ci]
                   b == BadgeById(row.badge)
               IN /\ row.user = c.userId
                  /\ b.criteriaType \in {"prs", "commits"}
                  /\ b.criteriaType = "prs" => row.actualValue = c.mergedPRs
                  /\ b.criteriaType = "commits" => row.actualValue = c.totalCommits]_vars

\* An Award for the commits badge carries a totalCommits that differs from
\* the user's mergedPRs.
CommitsAwardHoldsCommits ==
    \E i \in 1..Len(userBadges) :
        /\ BadgeById(userBadges[i].badge).criteriaType = "commits"
        /\ userBadges[i].actualValue = CurrentStats(userBadges[i].user).totalCommits
        /\ userBadges[i].actualValue # CurrentStats(userBadges[i].user).mergedPRs

\* C36: every Award row is for a badge that is active, belongs to the
\* repository the row names, which is one an invocation evaluated, and has
\* criteria type prs or commits.
AwardsOnlyLiveBadges ==
    \A i \in 1..Len(userBadges) :
        LET b == BadgeById(userBadges[i].badge)
        IN /\ b.active
           /\ b.repository = userBadges[i].repository
           /\ b.repository \in RunRepos
           /\ b.criteriaType \in {"prs", "commits"}

\* A run over a catalog with a retired prs-1 badge and a stars badge ended
\* with the prs-5 badge awarded to a user with 5 merged pull requests.
RetiredAndInertSkipped ==
    /\ procs["p1"].pc = "done"
    /\ ~badges[1].active
    /\ \E i \in 1..Len(userBadges) :
          /\ userBadges[i].badge = <<"r1", 2>>
          /\ CurrentStats(userBadges[i].user).mergedPRs = 5

ListsNaming(c, githubId) ==
    {l \in {"imported", "updated", "errors"} :
        CASE l = "imported" -> githubId \in ListedIds(c.imported)
          [] l = "updated" -> githubId \in ListedIds(c.updated)
          [] l = "errors" -> githubId \in Range(c.errors)}

\* C38 (as stated): in the result of importRepositories every snapshot is
\* named by exactly one of the lists imported, updated and errors.
EachSnapshotInOneList ==
    \A p \in Procs :
        importers[p].pc = "done" =>
            \A i \in 1..Len(importers[p].githubRepos) :
                Cardinality(ListsNaming(importers[p], importers[p].githubRepos[i].id)) = 1

\* C39 (as stated): after importRepositories has returned success = true,
\* every repository its imported and updated lists name exists and has an
\* active membership row of the importing user, and so has every
\* Repository row the call created.
ListedRepositoriesHaveMembership ==
    \A p \in Procs :
        LET c == importers[p]
            listed == {c.imported[i].id : i \in 1..Len(c.imported)}
                      \cup {c.updated[i].id : i \in 1..Len(c.updated)}
            created == {repositories[i].id : i \in {j \in 1..Len(repositories) :
                                                       repositories[j].id[1] = p}}
        IN (c.pc = "done" /\ c.success) =>
              /\ \A id \in listed : \E i \in 1..Len(repositories) : repositories[i].id = id
              /\ \A id \in listed \cup created :
                    \E i \in 1..Len(userRepositories) :
                        /\ userRepositories[i].user = c.userId
                        /\ userRepositories[i].repository = id
                        /\ userRepositories[i].active

====
